---- MODULE Spec2Model ----
(***************************************************************************)
(* A model of evelib: yaml_workaround.py, the line-oriented loader of a    *)
(* YAML subset; esi.py, the ESI client with its cache, its retries and its *)
(* error rate limit; and the checksum test of sde.py.  Text is a sequence  *)
(* of one-character strings; the input file is one flat sequence of        *)
(* characters read through a byte position.                                *)
(***************************************************************************)
EXTENDS Integers, Sequences, FiniteSets, TLC

\* the loader: the file and its read position, the control position of load,
\* the context stack and the containers, the line counter, the exception
\* raised, whether the stream is closed, and for a caller who loads the same
\* file again the outcome of the call before and the number of the call
VARIABLES file, pos, pc, data_layers, heap, line_count, err, closed, previous, calls

\* handle_value on its own: its argument and its return value
VARIABLES given, decoded

yamlVars == <<file, pos, pc, data_layers, heap, line_count, err, closed, previous, calls,
              given, decoded>>

\* the ESI client: the clock, the responses the server may give, the flag and
\* the entries of the internal cache, the error rate limit, the request
\* coroutines, the HTTP requests sent so far, and whether a response has
\* reported no errors remaining since the last reset; the aiohttp session of
\* the client, the calls of close_session so far, and whether such a call is
\* suspended in session.close()
VARIABLES now, server, use_internal_cache, cache, error_rate_limit, tasks, sent, limit_hit,
          session, closes, closing

esiVars == <<now, server, use_internal_cache, cache, error_rate_limit, tasks, sent, limit_hit,
             session, closes, closing>>

\* the checksum test of the SDE: the control position of _sde_checksum_match,
\* the local checksum file, the checksum the server holds, the bytes downloaded,
\* the value returned and the downloads of the call
VARIABLES sde_pc, local_checksum, remote_checksum, remote_checksum_data, checksum_match,
          downloads

sdeVars == <<sde_pc, local_checksum, remote_checksum, remote_checksum_data, checksum_match,
             downloads>>

vars == <<yamlVars, esiVars, sdeVars>>

\* no ESI client is in use
EsiOff ==
    /\ now = 0
    /\ server = {}
    /\ use_internal_cache = FALSE
    /\ cache = <<>>
    /\ error_rate_limit = <<>>
    /\ tasks = <<>>
    /\ sent = 0
    /\ limit_hit = FALSE
    /\ session = "none"
    /\ closes = 0
    /\ closing = FALSE

\* no SDE is in use
SdeOff ==
    /\ sde_pc = "off"
    /\ local_checksum = <<>>
    /\ remote_checksum = <<>>
    /\ remote_checksum_data = <<>>
    /\ checksum_match = FALSE
    /\ downloads = 0

(***************************************************************************)
(* Bounds of the model.                                                    *)
(***************************************************************************)
\* the longest document of nesting lines, in physical lines
MaxLines == 5
\* the longest document with blank and comment lines
MaxCommentLines == 5
\* the longest document with quoted and folded strings
MaxTextLines == 5
\* the longest text handed to the scalar decoder on its own
MaxText == 5

(***************************************************************************)
(* Characters and the str methods the loader uses.                         *)
(***************************************************************************)
\* the whitespace str.strip() removes, as far as the modelled alphabet goes
WS == {" ", "\n"}

Digits == {"0", "1", "2", "3", "4", "5", "6", "7", "8", "9"}

DigitVal(c) ==
    CASE c = "0" -> 0 [] c = "1" -> 1 [] c = "2" -> 2 [] c = "3" -> 3
      [] c = "4" -> 4 [] c = "5" -> 5 [] c = "6" -> 6 [] c = "7" -> 7
      [] c = "8" -> 8 [] c = "9" -> 9

SetMin(S) == CHOOSE x \in S : \A y \in S : x <= y

\* how many leading characters of s belong to cs
LeadCount(s, cs) ==
    LET bad == {i \in 1..Len(s) : s[i] \notin cs}
    IN  IF bad = {} THEN Len(s) ELSE SetMin(bad) - 1

\* how many trailing characters of s belong to cs
TrailCount(s, cs) ==
    LET bad == {i \in 1..Len(s) : s[Len(s) + 1 - i] \notin cs}
    IN  IF bad = {} THEN Len(s) ELSE SetMin(bad) - 1

\* str.lstrip(cs)
LStrip(s, cs) == SubSeq(s, LeadCount(s, cs) + 1, Len(s))

\* str.rstrip(cs)
RStrip(s, cs) == SubSeq(s, 1, Len(s) - TrailCount(s, cs))

\* str.strip(cs)
Strip(s, cs) == RStrip(LStrip(s, cs), cs)

\* str.startswith(p)
StartsWith(s, p) == Len(s) >= Len(p) /\ SubSeq(s, 1, Len(p)) = p

\* str.endswith(p)
EndsWith(s, p) == Len(s) >= Len(p) /\ SubSeq(s, Len(s) - Len(p) + 1, Len(s)) = p

\* the 0-based index of the first occurrence of p in s, -1 when there is none
Find(s, p) ==
    LET hits == {i \in 1..(Len(s) - Len(p) + 1) : SubSeq(s, i, i + Len(p) - 1) = p}
    IN  IF hits = {} THEN -1 ELSE SetMin(hits) - 1

\* str.replace(p, "~~") for a two-character p: left to right, not overlapping
RECURSIVE ReplacePair(_, _)
ReplacePair(s, p) ==
    IF Len(s) < 2 THEN s
    ELSE IF SubSeq(s, 1, 2) = p
         THEN <<"~", "~">> \o ReplacePair(SubSeq(s, 3, Len(s)), p)
         ELSE <<s[1]>> \o ReplacePair(Tail(s), p)

\* str.split(c) for a one-character separator
RECURSIVE Split(_, _)
Split(s, c) ==
    LET i == Find(s, <<c>>)
    IN  IF i = -1 THEN <<s>>
        ELSE <<SubSeq(s, 1, i)>> \o Split(SubSeq(s, i + 2, Len(s)), c)

\* str.isnumeric() on the modelled alphabet
IsNumeric(s) == Len(s) > 0 /\ \A i \in 1..Len(s) : s[i] \in Digits

\* int(s) of a string of digits
RECURSIVE IntOf(_)
IntOf(s) == IF Len(s) = 0 THEN 0
            ELSE 10 * IntOf(SubSeq(s, 1, Len(s) - 1)) + DigitVal(s[Len(s)])

(***************************************************************************)
(* Values: Python's int, float, bool, str, list and dict, tagged.  A dict  *)
(* or list under construction lives in the heap and is named by a ref.     *)
(***************************************************************************)
None == [t |-> "none"]
PyInt(n) == [t |-> "int", n |-> n]
PyBool(b) == [t |-> "bool", b |-> b]
PyStr(s) == [t |-> "str", s |-> s]
PyList(items) == [t |-> "list", items |-> items]
PyDict(items) == [t |-> "dict", items |-> items]
Ref(id) == [t |-> "ref", id |-> id]
\* a raised exception, by the place that raises it
Raise(kind) == [t |-> "error", kind |-> kind]

\* a float as digits * 10^-scale, trailing zeros of the fraction dropped
RECURSIVE NormFloat(_, _)
NormFloat(num, scale) ==
    IF scale > 0 /\ num % 10 = 0 THEN NormFloat(num \div 10, scale - 1)
    ELSE [t |-> "float", num |-> num, scale |-> scale]

\* float(s) of digits and dots holding at least one of each
PyFloat(s) ==
    LET dot == Find(s, <<".">>)
        digits == SelectSeq(s, LAMBDA c : c # ".")
    IN  IF Len(s) - Len(digits) # 1 THEN Raise("float")
        ELSE NormFloat(IntOf(digits), Len(s) - dot - 1)

RECURSIVE HandleEach(_)

\* handle_value: a literal text to a typed value
handle_value(raw) ==
    LET g == Strip(raw, WS)
        temp == SelectSeq(g, LAMBDA c : c # ".")
    IN  IF IsNumeric(temp) THEN (IF temp # g THEN PyFloat(g) ELSE PyInt(IntOf(g)))
        ELSE IF g = <<"t", "r", "u", "e">> THEN PyBool(TRUE)
        ELSE IF g = <<"f", "a", "l", "s", "e">> THEN PyBool(FALSE)
        ELSE IF StartsWith(g, <<"[">>) /\ EndsWith(g, <<"]">>)
             THEN LET split_given == Split(SubSeq(g, 2, Len(g) - 1), ",")
                  IN  IF Len(split_given) > 1
                      THEN HandleEach(split_given)
                      ELSE PyList(<<>>)
        ELSE PyStr(g)

\* the loop of handle_value over the elements of a flow sequence
HandleEach(parts) ==
    IF Len(parts) = 0 THEN PyList(<<>>)
    ELSE LET head == handle_value(parts[1])
             rest == HandleEach(Tail(parts))
         IN  IF head.t = "error" THEN head
             ELSE IF rest.t = "error" THEN rest
             ELSE PyList(<<head>> \o rest.items)

(***************************************************************************)
(* Line classification.                                                    *)
(***************************************************************************)
\* strip_indent: the line without its leading spaces
strip_indent(line) == LStrip(line, {" "})

\* get_indent_level: the count of leading spaces
get_indent_level(line) == Len(line) - Len(strip_indent(line))

\* get_list_indent: the column after the "- " marker, None for other lines
get_list_indent(line) ==
    IF StartsWith(strip_indent(line), <<"-", " ">>)
    THEN PyInt(Find(line, <<"-", " ">>) + 2)
    ELSE None

\* strip_list_indent: the line without its leading "-" and " " characters
strip_list_indent(line) == LStrip(line, {"-", " "})

\* a faulty get_stripped_list_indent: the width of the "- " marker forgotten
get_stripped_list_indent_no_marker(line) == get_indent_level(line)

\* get_stripped_list_indent: how many characters strip_list_indent removes
get_stripped_list_indent(line) == Len(line) - Len(strip_list_indent(line))

\* get_list_indent(line) or get_indent_level(line)
logical_indent(line) ==
    LET li == get_list_indent(line)
    IN  IF li = None \/ li = PyInt(0) THEN get_indent_level(line) ELSE li.n

\* the tuple get_dict_value returns; a raise in either handle_value wins
KeyValue(key, val) ==
    IF key.t = "error" THEN key
    ELSE IF val.t = "error" THEN val
    ELSE [t |-> "pair", k |-> key, v |-> val]

\* the body of get_dict_value on the stripped line g
DictValueOf(g, hits) ==
    IF hits = {} THEN None
    ELSE KeyValue(handle_value(strip_list_indent(SubSeq(g, 1, SetMin(hits) - 1))),
                  IF Len(g) = SetMin(hits) THEN PyDict(<<>>)
                  ELSE handle_value(SubSeq(g, SetMin(hits) + 1, Len(g))))

\* get_dict_value: (key, value) of a "key:" or "key: value" line, else None
get_dict_value(given_line) ==
    LET g == Strip(strip_indent(given_line), WS)
    IN  DictValueOf(g, {i \in 1..Len(g) : g[i] = ":" /\ (Len(g) = i \/ g[i + 1] = " ")})

\* find_stop_string: index of the first unescaped stop character, -1 for None
find_stop_string(given_text, stop_string) ==
    LET split_text == Split(ReplacePair(ReplacePair(given_text, <<"\\", stop_string>>),
                                        <<stop_string, stop_string>>), stop_string)
    IN  IF Len(split_text) = 1 THEN -1 ELSE Len(split_text[1])

(***************************************************************************)
(* The stream: file.readline() and the lookahead.                          *)
(***************************************************************************)
\* file.readline() at byte position p of f: up to and including the newline
ReadLine(f, p) ==
    IF p >= Len(f) THEN <<>>
    ELSE LET nl == {i \in (p + 1)..Len(f) : f[i] = "\n"}
         IN  SubSeq(f, p + 1, IF nl = {} THEN Len(f) ELSE SetMin(nl))

\* the loop of read_future_line: skip blank lines and lines starting with "#".
\* At end of file readline() returns b"" for ever and the loop never exits.
RECURSIVE FutureScan(_, _, _)
FutureScan(f, p, full) ==
    LET line_data == ReadLine(f, p)
    IN  IF Strip(line_data, WS) = <<>> \/ StartsWith(line_data, <<"#">>)
        THEN IF line_data = <<>>
             THEN [hang |-> TRUE, line |-> <<>>, at |-> p, full |-> full]
             ELSE FutureScan(f, p + Len(line_data), full + Len(line_data))
        ELSE [hang |-> FALSE, line |-> line_data, at |-> p + Len(line_data),
              full |-> full + Len(line_data)]

\* read_future_line: the next significant line, with the bytes read to get it
read_future_line(f, p) == FutureScan(f, p, 0)

\* a faulty rewind: only the last line read is given back, not the skipped ones
Rewind_last_line(fut) == fut.at - Len(fut.line)

\* the finally clause of read_future_line: file.seek(-len(full_data), 1)
Rewind(fut) == fut.at - fut.full

(***************************************************************************)
(* The loader's state while one line is handled: the context stack, the    *)
(* containers, the read position and how the handling ended: "ok", "error" *)
(* with the raise site in kind, or "hang" inside read_future_line's loop.  *)
(***************************************************************************)
Machine(layers, hp, p) == [layers |-> layers, heap |-> hp, pos |-> p, st |-> "ok", kind |-> ""]

Fail(m, kind) == [m EXCEPT !.st = "error", !.kind = kind]

\* NestedData(indent, data): data names a container of the heap
NestedData(indent, data) == [indent |-> indent, data |-> data]

\* sum_layer_indent
RECURSIVE sum_layer_indent(_)
sum_layer_indent(layers) ==
    IF Len(layers) = 0 THEN 0
    ELSE layers[Len(layers)].indent + sum_layer_indent(SubSeq(layers, 1, Len(layers) - 1))

\* pop_data_layer
pop_data_layer(layers) == SubSeq(layers, 1, Len(layers) - 1)

\* add_data_layer
add_data_layer(layers, indent, pointer) == Append(layers, NestedData(indent, pointer))

\* top_layer.data as a container of the heap
TopData(m) == m.heap[m.layers[Len(m.layers)].data]

\* the dedent loop of on_line: pop while the line's indent is below the sum
RECURSIVE Dedent(_, _)
Dedent(layers, current_indent_level) ==
    IF current_indent_level < sum_layer_indent(layers)
    THEN Dedent(pop_data_layer(layers), current_indent_level)
    ELSE layers

\* Python's equality of two keys: 1, 1.0 and True are one key
KeyNum(k) ==
    IF k.t = "int" THEN PyInt(k.n)
    ELSE IF k.t = "bool" THEN PyInt(IF k.b THEN 1 ELSE 0)
    ELSE IF k.t = "float" /\ k.scale = 0 THEN PyInt(k.num)
    ELSE k

KeyEq(a, b) == KeyNum(a) = KeyNum(b)

\* d[k] = v on the entries of a dict: replace the value in place, or append
DictAssign(items, k, v) ==
    IF \E i \in 1..Len(items) : KeyEq(items[i].k, k)
    THEN [i \in 1..Len(items) |->
            IF KeyEq(items[i].k, k) THEN [k |-> items[i].k, v |-> v] ELSE items[i]]
    ELSE Append(items, [k |-> k, v |-> v])

\* self.top_layer.data[k] = v; a list is no key
SetKey(m, k, v) ==
    IF k.t = "list" THEN Fail(m, "unhashable")
    ELSE [m EXCEPT !.heap[m.layers[Len(m.layers)].data].items = DictAssign(@, k, v)]

\* self.top_layer.data.append(v)
AppendTop(m, v) == [m EXCEPT !.heap[m.layers[Len(m.layers)].data].items = Append(@, v)]

\* a new empty container joins the heap as ref and gets its own layer
Open(m, container, indent, ref) ==
    [m EXCEPT !.heap = Append(@, container),
              !.layers = add_data_layer(@, indent, ref)]

(***************************************************************************)
(* get_text_block: the rest of a string value.                             *)
(***************************************************************************)
\* the while loop of get_text_block; stop_string "" stands for None
RECURSIVE TextLoop(_, _, _, _, _)
\* a faulty loop: a blank line ends an unquoted block as a dedent does and
\* adds nothing to a quoted one
TextLoop_blank_ends(f, p, ret, stop_string, current_indent) ==
    LET raw_data == ReadLine(f, p)
        q == p + Len(raw_data)
        index == find_stop_string(raw_data, stop_string)
        more == ret \o <<" ">> \o Strip(raw_data, WS)
    IN  IF raw_data = <<>> THEN [val |-> PyStr(Strip(ret, WS)), pos |-> p]
        ELSE IF Strip(raw_data, WS) = <<>>
             THEN IF stop_string = ""
                  THEN [val |-> PyStr(Strip(ret, WS)), pos |-> p]
                  ELSE TextLoop(f, q, ret, stop_string, current_indent)
        ELSE IF stop_string = ""
             THEN IF get_indent_level(raw_data) <= current_indent
                  THEN [val |-> PyStr(Strip(ret, WS)), pos |-> q - Len(raw_data)]
                  ELSE TextLoop(f, q, more, stop_string, current_indent)
        ELSE IF index = -1 THEN TextLoop(f, q, more, stop_string, current_indent)
        ELSE IF index # Len(RStrip(raw_data, WS)) - 1
             THEN [val |-> Raise("outside_stop"), pos |-> q]
        ELSE [val |-> PyStr(ret \o <<" ">> \o RStrip(Strip(raw_data, WS), {stop_string})),
              pos |-> q]

TextLoop(f, p, ret, stop_string, current_indent) ==
    LET raw_data == ReadLine(f, p)
        q == p + Len(raw_data)
        index == find_stop_string(raw_data, stop_string)
        more == ret \o <<" ">> \o Strip(raw_data, WS)
    IN  IF raw_data = <<>> THEN [val |-> PyStr(Strip(ret, WS)), pos |-> p]
        ELSE IF Strip(raw_data, WS) = <<>>
             THEN TextLoop(f, q, ret \o <<"\n">>, stop_string, current_indent)
        ELSE IF stop_string = ""
             THEN IF get_indent_level(raw_data) <= current_indent
                  THEN [val |-> PyStr(Strip(ret, WS)), pos |-> q - Len(raw_data)]
                  ELSE TextLoop(f, q, more, stop_string, current_indent)
        ELSE IF index = -1 THEN TextLoop(f, q, more, stop_string, current_indent)
        ELSE IF index # Len(RStrip(raw_data, WS)) - 1
             THEN [val |-> Raise("outside_stop"), pos |-> q]
        ELSE [val |-> PyStr(ret \o <<" ">> \o RStrip(Strip(raw_data, WS), {stop_string})),
              pos |-> q]

get_text_block(f, p, starting_string, current_indent) ==
    IF Len(starting_string) = 0 THEN [val |-> Raise("index"), pos |-> p]
    ELSE IF starting_string[1] \in {"\"", "'"}
    THEN LET stop_string == starting_string[1]
             index == find_stop_string(Tail(starting_string), stop_string)
         IN  IF index = -1
             THEN TextLoop(f, p, starting_string, stop_string, current_indent)
             ELSE IF index # Len(starting_string) - 2
             THEN [val |-> Raise("outside_stop"), pos |-> p]
             ELSE [val |-> PyStr(Strip(starting_string, {stop_string})), pos |-> p]
    ELSE TextLoop(f, p, starting_string, "", current_indent)

(***************************************************************************)
(* handle_dict, handle_list and on_line.  handle_* give [ret, m]: the      *)
(* returned bool and the machine after the call.                           *)
(***************************************************************************)
Ret(r, m) == [ret |-> r, m |-> m]

\* the body of "with self.read_future_line()" in handle_dict, then its finally
FutureNesting(f, m, key, current_indent_level) ==
    LET fut == read_future_line(f, m.pos)
        future_indent_level == logical_indent(fut.line)
        back == [m EXCEPT !.pos = Rewind(fut)]
        id == Len(m.heap) + 1
    IN  IF fut.hang THEN [m EXCEPT !.st = "hang", !.pos = fut.at]
        ELSE IF future_indent_level < current_indent_level
             THEN Fail(back, "future_indent")
        ELSE IF key.t = "list" THEN Fail(back, "unhashable")
        ELSE IF StartsWith(strip_indent(fut.line), <<"-", " ">>)
             THEN Open(SetKey(back, key, Ref(id)), PyList(<<>>),
                       get_list_indent(fut.line).n - current_indent_level, id)
        ELSE Open(SetKey(back, key, Ref(id)), PyDict(<<>>),
                  future_indent_level - current_indent_level, id)

\* self.top_layer.data[key] = self.get_text_block(...), block being its outcome
SetKeyToBlock(m, key, block) ==
    IF block.val.t = "error" THEN Fail([m EXCEPT !.pos = block.pos], block.val.kind)
    ELSE SetKey([m EXCEPT !.pos = block.pos], key, block.val)

\* a faulty handle_dict: with no layer left on the stack the entry is dropped
\* and no IndexError raised
HandleDictData_no_layer(f, m, dict_data, current_indent_level) ==
    IF dict_data.t = "error" THEN Ret(FALSE, Fail(m, dict_data.kind))
    ELSE IF dict_data = None THEN Ret(FALSE, m)
    ELSE IF Len(m.layers) = 0 THEN Ret(TRUE, m)
    ELSE IF TopData(m).t # "dict" THEN Ret(FALSE, Fail(m, "expected_dict"))
    ELSE IF dict_data.v = PyDict(<<>>)
         THEN Ret(TRUE, FutureNesting(f, m, dict_data.k, current_indent_level))
    ELSE IF dict_data.v.t = "str"
         THEN Ret(TRUE, SetKeyToBlock(m, dict_data.k,
                    get_text_block(f, m.pos, dict_data.v.s, current_indent_level)))
    ELSE Ret(TRUE, SetKey(m, dict_data.k, dict_data.v))

\* handle_dict once get_dict_value has given dict_data
HandleDictData(f, m, dict_data, current_indent_level) ==
    IF dict_data.t = "error" THEN Ret(FALSE, Fail(m, dict_data.kind))
    ELSE IF dict_data = None THEN Ret(FALSE, m)
    ELSE IF Len(m.layers) = 0 THEN Ret(FALSE, Fail(m, "index"))
    ELSE IF TopData(m).t # "dict" THEN Ret(FALSE, Fail(m, "expected_dict"))
    ELSE IF dict_data.v = PyDict(<<>>)
         THEN Ret(TRUE, FutureNesting(f, m, dict_data.k, current_indent_level))
    ELSE IF dict_data.v.t = "str"
         THEN Ret(TRUE, SetKeyToBlock(m, dict_data.k,
                    get_text_block(f, m.pos, dict_data.v.s, current_indent_level)))
    ELSE Ret(TRUE, SetKey(m, dict_data.k, dict_data.v))

handle_dict(f, m, decoded_data, current_indent_level) ==
    HandleDictData(f, m, get_dict_value(decoded_data), current_indent_level)

\* val = handle_value(...); self.top_layer.data.append(val)
AppendValue(m, val) == IF val.t = "error" THEN Fail(m, val.kind) ELSE AppendTop(m, val)

\* the branch of handle_list taken for a "- " line, the top layer being a list
ListItem(f, m, decoded_data, current_indent_level, dict_data) ==
    LET id == Len(m.heap) + 1
        dict_indent == get_stripped_list_indent(decoded_data) - current_indent_level
    IN  IF dict_data.t = "error" THEN Fail(m, dict_data.kind)
        ELSE IF dict_data # None
             THEN handle_dict(f, Open(AppendTop(m, Ref(id)), PyDict(<<>>), dict_indent, id),
                              decoded_data, current_indent_level + dict_indent).m
        ELSE AppendValue(m, handle_value(strip_list_indent(decoded_data)))

handle_list(f, m, decoded_data, current_indent_level) ==
    IF ~StartsWith(strip_indent(decoded_data), <<"-", " ">>) THEN Ret(FALSE, m)
    ELSE IF Len(m.layers) = 0 THEN Ret(FALSE, Fail(m, "index"))
    ELSE LET popped ==
                 IF TopData(m).t = "dict"
                    /\ current_indent_level > get_indent_level(decoded_data)
                 THEN [m EXCEPT !.layers = pop_data_layer(@)]
                 ELSE m
         IN  IF Len(popped.layers) = 0 THEN Ret(FALSE, Fail(popped, "index"))
             ELSE IF TopData(popped).t # "list"
                  THEN Ret(FALSE, Fail(popped, "expected_list"))
             ELSE Ret(TRUE, ListItem(f, popped, decoded_data, current_indent_level,
                                     get_dict_value(decoded_data)))

\* a faulty indent check: the comparison turned around
IndentTooDeep_flipped(current_indent_level, temp) == current_indent_level < temp

\* the indent check of on_line after the dedent loop
IndentTooDeep(current_indent_level, temp) == current_indent_level > temp

\* "and not self.handle_dict(...)": raise when neither handler took the line
OrElseDict(as_dict) ==
    IF as_dict.m.st # "ok" \/ as_dict.ret THEN as_dict.m
    ELSE Fail(as_dict.m, "cannot_handle")

\* "if not self.handle_list(...) and not self.handle_dict(...)"
Dispatch(f, as_list, decoded_data, current_indent_level) ==
    IF as_list.m.st # "ok" \/ as_list.ret THEN as_list.m
    ELSE OrElseDict(handle_dict(f, as_list.m, decoded_data, current_indent_level))

on_line(f, m, decoded_data) ==
    IF Strip(decoded_data, WS) = <<>> THEN m
    ELSE IF StartsWith(Strip(decoded_data, WS), <<"#">>) THEN m
    ELSE LET current_indent_level == logical_indent(decoded_data)
             dedented == [m EXCEPT !.layers = Dedent(@, current_indent_level)]
         IN  IF IndentTooDeep(current_indent_level, sum_layer_indent(dedented.layers))
             THEN Fail(dedented, "weh")
             ELSE Dispatch(f, handle_list(f, dedented, decoded_data, current_indent_level),
                           decoded_data, current_indent_level)

(***************************************************************************)
(* Documents.                                                              *)
(***************************************************************************)
\* the file holding the given lines, each ended by a newline
RECURSIVE Flatten(_)
Flatten(lines) ==
    IF Len(lines) = 0 THEN <<>>
    ELSE lines[1] \o <<"\n">> \o Flatten(Tail(lines))

\* the physical lines of a file, newlines included
RECURSIVE LinesOf(_)
LinesOf(f) ==
    IF Len(f) = 0 THEN <<>>
    ELSE LET line == ReadLine(f, 0)
         IN  <<line>> \o LinesOf(SubSeq(f, Len(line) + 1, Len(f)))

\* the files of at most max lines over a vocabulary of lines
Docs(vocabulary, max) == {Flatten(d) : d \in UNION {[1..n -> vocabulary] : n \in 0..max}}

\* nesting: open keys, inline values, sequence items, a bad dedent
NestLines ==
    { <<"a", ":">>,
      <<"a", ":", " ", "1">>,
      <<" ", " ", "b", ":", " ", "1">>,
      <<" ", "c", ":", " ", "2">>,
      <<" ", " ", "-", " ", "b", ":", " ", "1">>,
      <<" ", " ", " ", " ", "c", ":", " ", "2">> }

\* blank lines, comments at column 0 and indented, open keys at two depths
CommentLines ==
    { <<"a", ":">>,
      <<"a", ":", " ", "1">>,
      <<" ", " ", "b", ":">>,
      <<" ", " ", "b", ":", " ", "1">>,
      <<>>,
      <<"#", " ", "c">>,
      <<" ", " ", " ", " ", "#", " ", "c">> }

\* strings: a quote opened and closed on later lines, folded continuations
TextLines ==
    { <<"a", ":", " ", "\"", "x">>,
      <<" ", " ", "y", "\"">>,
      <<"a", ":", " ", "x">>,
      <<" ", " ", "z">>,
      <<"b", ":", " ", "1">>,
      <<>> }

\* the texts given to handle_value on its own
ValueChars == {"1", "5", "-", ".", "[", "]", ","}

ValueTexts ==
    UNION {[1..n -> ValueChars] : n \in 0..MaxText}
      \cup { <<"t", "r", "u", "e">>, <<"f", "a", "l", "s", "e">>, <<"T", "r", "u", "e">>,
             <<" ", "5", " ">>, <<"[", "5", ",", "t", "r", "u", "e", "]">> }

\* the value tree a container of the heap stands for
RECURSIVE Tree(_, _)
Tree(hp, v) ==
    IF v.t # "ref" THEN v
    ELSE LET c == hp[v.id]
         IN  IF c.t = "dict"
             THEN PyDict([i \in 1..Len(c.items) |->
                            [k |-> c.items[i].k, v |-> Tree(hp, c.items[i].v)]])
             ELSE PyList([i \in 1..Len(c.items) |-> Tree(hp, c.items[i])])

\* what load returns: loader.data_layers[0].data
Returned == Tree(heap, Ref(data_layers[1].data))

(***************************************************************************)
(* load.  pc is "start" before the root is chosen, "run" in the read loop, *)
(* "done" after the return, "error" after a raise and "hang" when control  *)
(* is in the loop of read_future_line at end of file.                      *)
(***************************************************************************)
Idle == given = <<>> /\ decoded = None

\* the loader before load is called on the file
Fresh ==
    /\ pos = 0
    /\ pc = "start"
    /\ data_layers = <<>>
    /\ heap = <<>>
    /\ line_count = 0
    /\ err = ""
    /\ closed = TRUE
    /\ previous = None
    /\ calls = 1
    /\ Idle
    /\ EsiOff
    /\ SdeOff

Init == file \in Docs(NestLines, MaxLines) /\ Fresh

InitComment == file \in Docs(CommentLines, MaxCommentLines) /\ Fresh

InitText == file \in Docs(TextLines, MaxTextLines) /\ Fresh

\* a faulty root: the stack and the containers shared by all loaders, load
\* pushing its root onto what the call before left there
ChooseRoot_shared(fut) ==
    IF StartsWith(Strip(fut.line, WS), <<"-", " ">>)
    THEN Machine(Append(data_layers, NestedData(2, Len(heap) + 1)),
                 Append(heap, PyList(<<>>)), Rewind(fut))
    ELSE Machine(Append(data_layers, NestedData(0, Len(heap) + 1)),
                 Append(heap, PyDict(<<>>)), Rewind(fut))

\* the root layer load builds from the first significant line
ChooseRoot(fut) ==
    IF StartsWith(Strip(fut.line, WS), <<"-", " ">>)
    THEN Machine(<<NestedData(2, 1)>>, <<PyList(<<>>)>>, Rewind(fut))
    ELSE Machine(<<NestedData(0, 1)>>, <<PyDict(<<>>)>>, Rewind(fut))

\* the loader's fields after the root was chosen, or the peek hung
AfterRoot(fut) ==
    IF fut.hang
    THEN /\ pc' = "hang"
         /\ pos' = fut.at
         /\ UNCHANGED <<data_layers, heap>>
    ELSE /\ pc' = "run"
         /\ pos' = ChooseRoot(fut).pos
         /\ heap' = ChooseRoot(fut).heap
         /\ data_layers' = ChooseRoot(fut).layers

\* a faulty exit: the stream closed after the return only, left open by a raise
CloseOnExit_return_only(st) == st = "done"

\* the stream is closed when the with block of load is left, by the return or
\* by a raise, and stays open while control is inside it
CloseOnExit(st) == st \in {"done", "error"}

\* load up to the read loop: a new loader, the counter at zero, the file opened
\* at its first byte, and the first significant line chooses the root
Start ==
    /\ pc = "start"
    /\ line_count' = 0
    /\ closed' = FALSE
    /\ AfterRoot(read_future_line(file, 0))
    /\ UNCHANGED <<file, err, previous, calls, given, decoded, esiVars, sdeVars>>

\* the loader's fields after on_line returned, raised or hung
AfterLine(m) ==
    /\ data_layers' = m.layers
    /\ heap' = m.heap
    /\ pos' = m.pos
    /\ pc' = (IF m.st = "ok" THEN "run" ELSE m.st)
    /\ err' = m.kind

\* one turn of the read loop: readline() gave a line, on_line handles it
Step ==
    /\ pc = "run"
    /\ ReadLine(file, pos) # <<>>
    /\ line_count' = line_count + 1
    /\ AfterLine(on_line(file, Machine(data_layers, heap, pos + Len(ReadLine(file, pos))),
                         ReadLine(file, pos)))
    /\ closed' = CloseOnExit(pc')
    /\ UNCHANGED <<file, previous, calls, given, decoded, esiVars, sdeVars>>

\* a faulty end of the loop: the frames above the root are popped before load
\* returns
Finish_pops_to_root ==
    /\ pc = "run"
    /\ ReadLine(file, pos) = <<>>
    /\ IF Len(data_layers) = 0
       THEN pc' = "error" /\ err' = "index"
       ELSE pc' = "done" /\ err' = err
    /\ data_layers' = SubSeq(data_layers, 1, 1)
    /\ closed' = CloseOnExit(pc')
    /\ UNCHANGED <<file, pos, heap, line_count, previous, calls, given, decoded,
                   esiVars, sdeVars>>

\* readline() gave b"": the loop ends and load returns data_layers[0].data
Finish ==
    /\ pc = "run"
    /\ ReadLine(file, pos) = <<>>
    /\ IF Len(data_layers) = 0
       THEN pc' = "error" /\ err' = "index"
       ELSE pc' = "done" /\ err' = err
    /\ closed' = CloseOnExit(pc')
    /\ UNCHANGED <<file, pos, data_layers, heap, line_count, previous, calls, given, decoded,
                   esiVars, sdeVars>>

Next == Start \/ Step \/ Finish

Spec == Init /\ [][Next]_vars

\* the read loop of load as a function of the file: the machine at its end
RECURSIVE ReadLoop(_, _)
ReadLoop(f, m) ==
    IF m.st # "ok" \/ ReadLine(f, m.pos) = <<>> THEN m
    ELSE ReadLoop(f, on_line(f, [m EXCEPT !.pos = @ + Len(ReadLine(f, m.pos))],
                             ReadLine(f, m.pos)))

\* how load ends on the file f: st is "done", "error" or "hang", with the tree
LoadEnd(m) ==
    IF m.st # "ok" THEN [st |-> m.st, tree |-> None]
    ELSE IF Len(m.layers) = 0 THEN [st |-> "error", tree |-> None]
    ELSE [st |-> "done", tree |-> Tree(m.heap, Ref(m.layers[1].data))]

LoadFrom(f, fut) ==
    IF fut.hang THEN [st |-> "hang", tree |-> None]
    ELSE LoadEnd(ReadLoop(f, ChooseRoot(fut)))

Load(f) == LoadFrom(f, read_future_line(f, 0))

SpecComment == InitComment /\ [][Next]_vars

\* the longest document of keys that read as numbers and booleans
MaxKeyLines == 4

\* keys made of digits, of digits and a dot, and the words true and false
KeyLines ==
    { <<"1", ":", " ", "a">>,
      <<"t", "r", "u", "e", ":", " ", "1">>,
      <<"a", ":", " ", "1">>,
      <<"b", ":">>,
      <<" ", " ", "2", ":", " ", "3">>,
      <<"1", ".", "5", ":", " ", "x">> }

InitKey == file \in Docs(KeyLines, MaxKeyLines) /\ Fresh

SpecKey == InitKey /\ [][Next]_vars

\* the longest document of sequence items with spaces after the marker
MaxItemLines == 4

\* items whose payload starts right after "- " and further to the right, an
\* item at the payload column of another, entries at both payload columns
ItemLines ==
    { <<"a", ":">>,
      <<" ", " ", "-", " ", " ", " ", "b", ":", " ", "1">>,
      <<" ", " ", " ", " ", "-", " ", "c", ":", " ", "2">>,
      <<" ", " ", " ", " ", " ", " ", "d", ":", " ", "3">>,
      <<" ", " ", "-", " ", "b", ":", " ", "1">>,
      <<" ", " ", " ", " ", "c", ":", " ", "2">> }

InitItem == file \in Docs(ItemLines, MaxItemLines) /\ Fresh

SpecItem == InitItem /\ [][Next]_vars

\* how many times the caller loads the file
MaxCalls == 2

\* what the caller of load gets: the tree returned, or the exception with the
\* line number logged for it
Outcome ==
    [st |-> pc, err |-> err,
     line |-> IF pc = "error" THEN line_count ELSE 0,
     tree |-> IF pc = "done" THEN Returned ELSE None]

\* load has returned or raised and the caller calls it again on the same file;
\* what the last loader held is left where it was
Again ==
    /\ pc \in {"done", "error"}
    /\ calls < MaxCalls
    /\ previous' = Outcome
    /\ calls' = calls + 1
    /\ pc' = "start"
    /\ err' = ""
    /\ UNCHANGED <<file, pos, data_layers, heap, line_count, closed, given, decoded,
                   esiVars, sdeVars>>

NextAgain == Start \/ Step \/ Finish \/ Again

SpecAgain == Init /\ [][NextAgain]_vars

SpecText == InitText /\ [][Next]_vars

(***************************************************************************)
(* handle_value on its own: one call on a text.                            *)
(***************************************************************************)
InitValue ==
    /\ given \in ValueTexts
    /\ decoded = None
    /\ pc = "value"
    /\ file = <<>>
    /\ pos = 0
    /\ data_layers = <<>>
    /\ heap = <<>>
    /\ line_count = 0
    /\ err = ""
    /\ closed = TRUE
    /\ previous = None
    /\ calls = 1
    /\ EsiOff
    /\ SdeOff

Decode ==
    /\ pc = "value"
    /\ decoded' = handle_value(given)
    /\ pc' = "decoded"
    /\ UNCHANGED <<file, pos, data_layers, heap, line_count, err, closed, previous, calls,
                   given, esiVars, sdeVars>>

SpecValue == InitValue /\ [][Decode]_vars

(***************************************************************************)
(* esi.py.  Time is counted in half seconds.  A header that is absent is   *)
(* -1 (a number) or "" (a text); the ESIResponse whose id is 0 stands for  *)
(* None.                                                                   *)
(***************************************************************************)
\* EVEESI.MAX_RETRIES
MAX_RETRIES == 3
\* EVEESI.RETRY_START_DELAY, 5 seconds
RETRY_START_DELAY == 10
\* EVEESI.RETRY_INCREMENT, 2.5 seconds
RETRY_INCREMENT == 5

\* the clock stops here
MaxTime == 6
\* the clock of the runs that follow a call through its retries stops here
MaxRetryTime == 70
\* the HTTP requests one run may send
MaxSent == 5
\* the request coroutines that may run at once
MaxTasks == 2
\* the calls of close_session in one run
MaxCloses == 1

Tasks == 1..MaxTasks

\* the cache keys (method, route, params, headers) in use: the caller's headers
\* without and with an If-None-Match of their own, and the route of the OAuth
\* authorization server metadata
Keys == {"plain", "conditional", "oauth"}

\* ESIResponse, as far as request looks into it
ESIResponse(id, expires, etag) == [id |-> id, expires |-> expires, etag |-> etag]

\* what self._cache.get(cache_key) gives for a key the cache does not hold
NoResponse == ESIResponse(0, -1, "")

\* an aiohttp response: the status and the headers request and update read,
\* the Expires header as the seconds from now it names
HttpResponse(status, remain, reset, ttl, etag) ==
    [status |-> status, remain |-> remain, reset |-> reset, ttl |-> ttl, etag |-> etag]

\* ErrorRateLimit.__init__; task is _reset_remaining_task, event _on_reset_event
ErrorRateLimit ==
    [limit |-> 1, remaining |-> 1, max_concurrent |-> 1, reset_after |-> 2,
     task |-> [st |-> "none", due |-> 0], event |-> TRUE, first_update |-> TRUE]

\* ErrorRateLimit.resetting: there is a reset task and it is not done.  A task
\* whose cancellation was requested is done only when the event loop has run
\* it ("cancelling" until then).
resetting(rl) == rl.task.st \in {"pending", "cancelling"}

\* ErrorRateLimit.empty
empty(rl) == rl.remaining <= 0

\* _start_reset_task at time t: a running task is cancelled, a new one sleeps
\* reset_after seconds
start_reset_task(rl, t) == [rl EXCEPT !.task = [st |-> "pending", due |-> t + rl.reset_after]]

\* update, lines 280-291: the remaining errors out of the header
UpdateRemaining(rl, x_remaining) ==
    IF x_remaining = -1
    THEN [rl EXCEPT !.limit = 1, !.remaining = 1, !.max_concurrent = 1]
    ELSE IF rl.first_update
    THEN [rl EXCEPT !.remaining = x_remaining, !.max_concurrent = x_remaining,
                    !.limit = IF @ < x_remaining THEN x_remaining ELSE @]
    ELSE [rl EXCEPT !.remaining = IF x_remaining < @ THEN x_remaining ELSE @]

\* update, lines 293-295
UpdateConcurrent(rl) ==
    IF rl.max_concurrent < rl.remaining THEN [rl EXCEPT !.max_concurrent = rl.remaining] ELSE rl

\* update, lines 297-302: the reset time out of the header
UpdateReset(rl, x_reset_after, t) ==
    IF x_reset_after = -1 THEN rl
    ELSE IF rl.first_update THEN [rl EXCEPT !.reset_after = x_reset_after]
    ELSE IF rl.reset_after < x_reset_after THEN start_reset_task(rl, t)
    ELSE rl

\* update, lines 304-305
EnsureReset(rl, t) == IF ~resetting(rl) THEN start_reset_task(rl, t) ELSE rl

\* update, lines 308-310
EnsureEvent(rl) == IF 0 < rl.remaining /\ ~rl.event THEN [rl EXCEPT !.event = TRUE] ELSE rl

\* ErrorRateLimit.update on the response r at time t
update(rl, r, t) ==
    [EnsureEvent(EnsureReset(UpdateReset(UpdateConcurrent(UpdateRemaining(rl, r.remain)),
                                         r.reset, t), t))
        EXCEPT !.first_update = FALSE]

\* ErrorRateLimit.__aexit__
aexit(rl) ==
    [rl EXCEPT !.remaining = IF rl.max_concurrent < @ + 1 THEN rl.max_concurrent ELSE @ + 1]

\* a faulty acquire: the event is cleared and no reset task is started
ClearIfEmpty_no_reset(rl, t) ==
    IF empty(rl) /\ rl.event THEN [rl EXCEPT !.event = FALSE] ELSE rl

\* acquire, lines 349-353 and 362-365: no request left and the event set: clear
\* the event and see to it that a reset is on its way
ClearIfEmpty(rl, t) ==
    IF empty(rl) /\ rl.event
    THEN EnsureReset([rl EXCEPT !.event = FALSE], t)
    ELSE rl

\* acquire, lines 367-369
Acquired(rl) == [rl EXCEPT !.max_concurrent = @ - 1]

\* a request coroutine that is not in a call
IdleTask ==
    [pc |-> "idle", key |-> "plain", inm |-> FALSE, i |-> 0, rid |-> 0, nsent |-> 0,
     status |-> 0, ret |-> NoResponse, wake |-> 0, out |-> NoResponse, raised |-> "",
     cached_response |-> NoResponse, update_ratelimit |-> TRUE, revoke |-> FALSE]

\* the coroutine as request is entered with the cache key k and the argument
\* update_ratelimit; cached_response is what line 455 finds
Entered(k, update_ratelimit) ==
    [IdleTask EXCEPT !.key = k, !.inm = (k = "conditional"),
                     !.update_ratelimit = update_ratelimit,
                     !.cached_response = IF use_internal_cache THEN cache[k] ELSE NoResponse]

\* a faulty expiry test: turned around
WithinExpiry_flipped(cached_response, t) ==
    cached_response.expires # -1 /\ cached_response.expires < t

\* request, lines 456-459: the cached response has an expiry and it is ahead
WithinExpiry(cached_response, t) ==
    cached_response.expires # -1 /\ t < cached_response.expires

\* request, lines 462-468: an etag of the cached response goes into the headers
WithEtag(task, cached_response) ==
    IF cached_response.id # 0 /\ cached_response.etag # "" /\ ~task.inm
    THEN [task EXCEPT !.inm = TRUE]
    ELSE task

\* request returns ret to its caller, the session being s.  When the caller
\* is post_revoke_refresh_token it goes on without a pause (lines 920-933) and
\* hands its POST to the session itself: sent, if the session is open.  The
\* metadata returned is taken to name the revocation endpoint.
Returns(t, task, ret, s) ==
    /\ tasks' = [tasks EXCEPT ![t] = [IdleTask EXCEPT !.pc = "returned", !.out = ret,
                                                      !.key = task.key, !.nsent = task.nsent,
                                                      !.cached_response = task.cached_response]]
    /\ IF task.revoke /\ s = "open"
       THEN sent < MaxSent /\ sent' = sent + 1
       ELSE sent' = sent

\* request raises
Raises(t, task, kind) ==
    tasks' = [tasks EXCEPT ![t] = [IdleTask EXCEPT !.pc = "raised", !.raised = kind,
                                                   !.key = task.key, !.nsent = task.nsent,
                                                   !.cached_response = task.cached_response]]

\* the coroutine task of t enters "async with self._error_rate_limit": it sends
\* its HTTP request through the session s when acquire lets it through, and
\* waits for the event when not.  A session that was closed sends nothing:
\* its request raises RuntimeError, which leaves the "async with" and request.
Attempt(t, task, rl, s) ==
    IF rl.event /\ s = "open"
    THEN /\ sent < MaxSent
         /\ error_rate_limit' = Acquired(rl)
         /\ sent' = sent + 1
         /\ tasks' = [tasks EXCEPT ![t] = [task EXCEPT !.pc = "inflight", !.rid = sent + 1,
                                                       !.nsent = @ + 1]]
    ELSE IF rl.event
    THEN /\ error_rate_limit' = aexit(Acquired(rl))
         /\ sent' = sent
         /\ Raises(t, task, "RuntimeError")
    ELSE /\ error_rate_limit' = rl
         /\ sent' = sent
         /\ tasks' = [tasks EXCEPT ![t] = [task EXCEPT !.pc = "waiting"]]

\* request is entered by the coroutine task; both: data and json are both
\* given.  A session is made when there is none or it was closed (lines
\* 446-447), once the arguments have passed.
Called(t, task, both) ==
    /\ tasks[t].pc \in {"idle", "returned", "raised"}
    /\ IF both
       THEN /\ Raises(t, task, "ValueError")
            /\ UNCHANGED <<error_rate_limit, sent, session>>
       ELSE IF task.cached_response.id # 0 /\ WithinExpiry(task.cached_response, now)
       THEN /\ Returns(t, task, task.cached_response, "open")
            /\ session' = "open"
            /\ UNCHANGED error_rate_limit
       ELSE /\ Attempt(t, WithEtag(task, task.cached_response),
                       ClearIfEmpty(error_rate_limit, now), "open")
            /\ session' = "open"
    /\ UNCHANGED <<now, server, use_internal_cache, cache, limit_hit, closes, closing>>

\* request is called with the key k and the argument update_ratelimit
Call(t, k, both, update_ratelimit) == Called(t, Entered(k, update_ratelimit), both)

\* the event was set while t waited in acquire: t looks at the limit again
Wake(t) ==
    /\ tasks[t].pc = "waiting"
    /\ error_rate_limit.event
    /\ Attempt(t, tasks[t], ClearIfEmpty(error_rate_limit, now), session)
    /\ UNCHANGED <<now, server, use_internal_cache, cache, limit_hit, session, closes, closing>>

\* the server answers the request of t with r; the limit is updated when the
\* call asked for it (line 481) and t waits for the body.  304 is an answer to
\* If-None-Match only.
Respond(t, r) ==
    /\ tasks[t].pc = "inflight"
    /\ r \in server
    /\ r.status = 304 => tasks[t].inm
    /\ error_rate_limit' = IF tasks[t].update_ratelimit
                           THEN update(error_rate_limit, r, now)
                           ELSE error_rate_limit
    /\ limit_hit' = ((tasks[t].update_ratelimit /\ r.remain = 0) \/ limit_hit)
    /\ tasks' = [tasks EXCEPT ![t] =
                    [@ EXCEPT !.pc = "body", !.status = r.status,
                              !.ret = ESIResponse(tasks[t].rid,
                                                  IF r.ttl = -1 THEN -1 ELSE now + r.ttl,
                                                  r.etag)]]
    /\ UNCHANGED <<now, server, use_internal_cache, cache, sent, session, closes, closing>>

\* a faulty retry test: every server error is tried again
ShouldRetry_any_5xx(status) == status >= 500

\* request, lines 509-513: the status after which the request is made again
ShouldRetry(status) == status = 504

\* request, lines 496-518: the error a status raises, "" for none
ErrorOf(status) ==
    IF status < 400 \/ ShouldRetry(status) THEN ""
    ELSE IF status = 400 THEN "HTTPBadRequest"
    ELSE IF status = 401 THEN "HTTPUnauthorized"
    ELSE IF status = 403 THEN "HTTPForbidden"
    ELSE IF status = 404 THEN "HTTPNotFound"
    ELSE "HTTPGeneric"

\* a faulty store: the response cached whether it expires or not
Stored_always(c, k, ret) == [c EXCEPT ![k] = ret]

\* request, lines 561-562: the cache after the loop
Stored(c, k, ret) ==
    IF use_internal_cache /\ ret.expires # -1 THEN [c EXCEPT ![k] = ret] ELSE c

\* request, lines 561-564: the loop is left, ret is cached and returned
Leave(t, task) ==
    /\ cache' = Stored(cache, task.key, task.ret)
    /\ Returns(t, task, task.ret, session)

\* the body of the response is read: request goes on from line 495 to the end
\* of the "async with", and from there to its return, its raise or its sleep
Complete(t) ==
    /\ tasks[t].pc = "body"
    /\ error_rate_limit' = aexit(error_rate_limit)
    /\ IF ErrorOf(tasks[t].status) # ""
       THEN Raises(t, tasks[t], ErrorOf(tasks[t].status)) /\ UNCHANGED <<cache, sent>>
       ELSE IF tasks[t].status = 304 /\ tasks[t].inm
       THEN Returns(t, tasks[t], cache[tasks[t].key], session) /\ cache' = cache
       ELSE IF ShouldRetry(tasks[t].status)
       THEN /\ tasks' = [tasks EXCEPT ![t] =
                           [@ EXCEPT !.pc = "sleeping",
                                     !.wake = now + RETRY_START_DELAY
                                                  + RETRY_INCREMENT * tasks[t].i]]
            /\ UNCHANGED <<cache, sent>>
       ELSE Leave(t, tasks[t])
    /\ UNCHANGED <<now, server, use_internal_cache, limit_hit, session, closes, closing>>

\* the sleep before a retry is over: the next turn of the loop, or its end
Retry(t) ==
    /\ tasks[t].pc = "sleeping"
    /\ now >= tasks[t].wake
    /\ IF tasks[t].i < MAX_RETRIES
       THEN /\ Attempt(t, [tasks[t] EXCEPT !.i = @ + 1], ClearIfEmpty(error_rate_limit, now),
                       session)
            /\ cache' = cache
       ELSE /\ Leave(t, tasks[t])
            /\ UNCHANGED error_rate_limit
    /\ UNCHANGED <<now, server, use_internal_cache, limit_hit, session, closes, closing>>

\* _reset_remaining after its sleep
ResetFires ==
    /\ error_rate_limit.task.st = "pending"
    /\ now >= error_rate_limit.task.due
    /\ error_rate_limit' = [error_rate_limit EXCEPT !.remaining = error_rate_limit.limit,
                                                    !.event = TRUE, !.task.st = "done"]
    /\ limit_hit' = FALSE
    /\ UNCHANGED <<now, server, use_internal_cache, cache, tasks, sent, session, closes, closing>>

\* close_session, lines 397-398: the cancellation of a reset task that is not
\* done is requested
cancel(rl) == IF resetting(rl) THEN [rl EXCEPT !.task.st = "cancelling"] ELSE rl

\* EVEESI.close_session: the session is closed if it is open, and the reset
\* task is cancelled.  session.close() gives way to the event loop or does not,
\* as the connector of the session has it; when it does, the call goes on in
\* close_session_resumes.  A request that is on the wire is taken to be
\* answered still; a coroutine that waits in acquire waits on.
close_session ==
    /\ closes < MaxCloses
    /\ ~closing
    /\ closes' = closes + 1
    /\ IF session = "open"
       THEN /\ session' = "closed"
            /\ \E suspends \in BOOLEAN :
                  /\ closing' = suspends
                  /\ error_rate_limit' = IF suspends THEN error_rate_limit
                                         ELSE cancel(error_rate_limit)
       ELSE /\ UNCHANGED <<session, closing>>
            /\ error_rate_limit' = cancel(error_rate_limit)
    /\ UNCHANGED <<now, server, use_internal_cache, cache, tasks, sent, limit_hit>>

\* session.close() is over: close_session goes on from line 397
close_session_resumes ==
    /\ closing
    /\ closing' = FALSE
    /\ error_rate_limit' = cancel(error_rate_limit)
    /\ UNCHANGED <<now, server, use_internal_cache, cache, tasks, sent, limit_hit, session,
                   closes>>

\* the event loop runs the reset task whose cancellation was requested:
\* CancelledError is thrown into its sleep and the task is done
Cancelled ==
    /\ error_rate_limit.task.st = "cancelling"
    /\ error_rate_limit' = [error_rate_limit EXCEPT !.task.st = "cancelled"]
    /\ UNCHANGED <<now, server, use_internal_cache, cache, tasks, sent, limit_hit, session,
                   closes, closing>>

\* EVEESI.post_revoke_refresh_token called by t.  The authorization server
\* given: the POST goes to the session itself, past the error rate limit and
\* the cache; without an open session the call raises and sends nothing.  Not
\* given (lines 917-918): get_oauth_authorization_server is awaited first, a
\* call of request with its defaults, and the POST follows its return.
post_revoke_refresh_token(t, server_given) ==
    IF server_given
    THEN /\ session = "open"
         /\ sent < MaxSent
         /\ sent' = sent + 1
         /\ UNCHANGED <<now, server, use_internal_cache, cache, error_rate_limit, tasks,
                        limit_hit, session, closes, closing>>
    ELSE Called(t, [Entered("oauth", TRUE) EXCEPT !.revoke = TRUE], FALSE)

\* a coroutine is ready to run: its sleep is over, or the event it waits for is set
TimerDue ==
    \/ error_rate_limit.task.st = "pending" /\ now >= error_rate_limit.task.due
    \/ error_rate_limit.task.st = "cancelling"
    \/ \E t \in Tasks : tasks[t].pc = "sleeping" /\ now >= tasks[t].wake
    \/ \E t \in Tasks : tasks[t].pc = "waiting" /\ error_rate_limit.event

\* half a second passes; the event loop runs what is due first
Tick(max) ==
    /\ now < max
    /\ ~TimerDue
    /\ now' = now + 1
    /\ UNCHANGED <<server, use_internal_cache, cache, error_rate_limit, tasks, sent, limit_hit,
                   session, closes, closing>>

\* nothing runs until the next sleep ends: the clock goes there.  Dues are
\* the times at which a sleep that is under way ends.
Elapse(max) ==
    LET Dues ==
            {error_rate_limit.task.due :
                x \in {0} \cap (IF error_rate_limit.task.st = "pending" THEN {0} ELSE {})}
                \cup {tasks[t].wake : t \in {u \in Tasks : tasks[u].pc = "sleeping"}}
    IN  /\ Dues # {}
        /\ ~TimerDue
        /\ \E d \in Dues : (\A e \in Dues : d <= e) /\ d <= max /\ now' = d
        /\ UNCHANGED <<server, use_internal_cache, cache, error_rate_limit, tasks, sent,
                       limit_hit, session, closes, closing>>

\* the loader, the decoder and the SDE stay as they are
EsiOnly == UNCHANGED <<yamlVars, sdeVars>>

\* any caller, with update_ratelimit or without: a plain key and well-formed
\* arguments, which is all the error rate limit comes to see
Request ==
    \E t \in Tasks, update_ratelimit \in BOOLEAN :
        Call(t, "plain", FALSE, update_ratelimit) /\ EsiOnly
\* one caller, one call after the other, update_ratelimit left at its default
Sequential ==
    \E k \in {"plain", "conditional"}, both \in BOOLEAN : Call(1, k, both, TRUE) /\ EsiOnly
Woken == \E t \in Tasks : Wake(t) /\ EsiOnly
Response == \E t \in Tasks : \E r \in server : Respond(t, r) /\ EsiOnly
Completed == \E t \in Tasks : Complete(t) /\ EsiOnly
Reset == ResetFires /\ EsiOnly
Time == Tick(MaxTime) /\ EsiOnly

\* no document is loaded and no value decoded
YamlOff ==
    /\ file = <<>>
    /\ pos = 0
    /\ pc = "off"
    /\ data_layers = <<>>
    /\ heap = <<>>
    /\ line_count = 0
    /\ err = ""
    /\ closed = TRUE
    /\ previous = None
    /\ calls = 1
    /\ Idle

\* EVEESI.__init__, with the responses the server may give
NewESI(responses) ==
    /\ now = 0
    /\ server = responses
    /\ use_internal_cache \in BOOLEAN
    /\ cache = [k \in Keys |-> NoResponse]
    /\ error_rate_limit = ErrorRateLimit
    /\ tasks = [t \in Tasks |-> IdleTask]
    /\ sent = 0
    /\ limit_hit = FALSE
    /\ session = "none"
    /\ closes = 0
    /\ closing = FALSE
    /\ YamlOff
    /\ SdeOff

\* a server of cacheable answers: with an Expires header or none, with an etag
\* or none, 304 to a conditional request
InitCache ==
    NewESI({HttpResponse(status, -1, -1, ttl, etag) :
               status \in {200, 304}, ttl \in {-1, 2}, etag \in {"", "e"}})

SpecCache == InitCache /\ [][Sequential \/ Response \/ Completed \/ Reset \/ Time]_vars

\* a server that reports its error limit, or leaves the headers out.  As in
\* test_error_ratelimit its answers have an Etag and an Expires that is not
\* ahead: with the cache on they are stored, and the next request for the key
\* is a conditional one.
InitLimit ==
    NewESI({HttpResponse(200, remain, reset, 0, "e") :
               remain \in {-1, 0, 2}, reset \in {-1, 3}})

\* the calls that send are made while fewer requests than this were sent
MaxLimitSent == 3
\* the clock of these runs stops here
MaxLimitTime == 3

\* the calls of request and of post_revoke_refresh_token, and what the event
\* loop runs between them, while the session is not closed
SpecLimit ==
    /\ InitLimit
    /\ [][\/ (sent < MaxLimitSent /\ Request)
           \/ Woken
           \/ Response
           \/ Completed
           \/ Reset
           \/ (Tick(MaxLimitTime) /\ EsiOnly)
           \/ (\E t \in Tasks, server_given \in BOOLEAN :
                   /\ sent < MaxLimitSent
                   /\ post_revoke_refresh_token(t, server_given)
                   /\ EsiOnly)]_vars

\* the HTTP requests of a run whose every call is followed to its end
MaxLiveSent == 2
\* no call of such a run is made after this time
MaxLiveTime == 2

\* the clock goes on as long as calls may come or a reset is on its way
LiveTime ==
    /\ now < MaxLiveTime \/ error_rate_limit.task.st = "pending"
    /\ Tick(now + 1)
    /\ EsiOnly

\* request is called while the run has a
\* request left for it, one being kept for each caller that waits in acquire;
\* the event loop runs what is ready: the reset task when its sleep is over,
\* a coroutine whose event was set; and time passes
SpecLive ==
    /\ InitLimit
    /\ [][\/ /\ now <= MaxLiveTime
              /\ sent + Cardinality({t \in Tasks : tasks[t].pc = "waiting"}) < MaxLiveSent
              /\ Request
           \/ Woken
           \/ Response
           \/ Completed
           \/ Reset
           \/ (close_session /\ EsiOnly)
           \/ (close_session_resumes /\ EsiOnly)
           \/ (Cancelled /\ EsiOnly)
           \/ LiveTime]_vars
    /\ WF_vars(Reset)
    /\ WF_vars(LiveTime)
    /\ WF_vars(Cancelled /\ EsiOnly)
    /\ \A t \in Tasks : WF_vars(Wake(t) /\ EsiOnly)

\* a server that fails
InitRetry ==
    NewESI({HttpResponse(status, -1, -1, ttl, "") :
               status \in {200, 400, 401, 403, 404, 500, 504}, ttl \in {-1, 2}})

SpecRetry ==
    /\ InitRetry
    /\ [][\/ Sequential
           \/ Response
           \/ Completed
           \/ (\E t \in Tasks : Retry(t) /\ EsiOnly)
           \/ Reset
           \/ (Elapse(MaxRetryTime) /\ EsiOnly)]_vars

(***************************************************************************)
(* sde.py: the checksum of the static data export.  Bytes are numbers, a   *)
(* text is a sequence of code points; the file system is the one file, or  *)
(* its absence, or the absence of its directory.                           *)
(***************************************************************************)
\* the longest checksum, in bytes
MaxChecksum == 2

\* the bytes in use: "a", a line feed, and the two bytes of "e" with an acute
\* accent in UTF-8, each of which is invalid alone
Bytes == {97, 10, 195, 169}

RECURSIVE BytesUpTo(_)
BytesUpTo(n) ==
    IF n = 0 THEN {<<>>}
    ELSE BytesUpTo(n - 1) \cup {<<b>> \o rest : b \in Bytes, rest \in {r \in BytesUpTo(n - 1) : Len(r) = n - 1}}

\* bytes.decode(): UTF-8, strict; ok is FALSE for UnicodeDecodeError
RECURSIVE decode(_)
decode(b) ==
    IF b = <<>> THEN [ok |-> TRUE, text |-> <<>>]
    ELSE IF Head(b) < 128
    THEN [ok |-> decode(Tail(b)).ok, text |-> <<Head(b)>> \o decode(Tail(b)).text]
    ELSE IF Head(b) \in 194..223 /\ Len(b) >= 2 /\ b[2] \in 128..191
    THEN [ok |-> decode(SubSeq(b, 3, Len(b))).ok,
          text |-> <<(Head(b) - 192) * 64 + (b[2] - 128)>> \o decode(SubSeq(b, 3, Len(b))).text]
    ELSE [ok |-> FALSE, text |-> <<>>]

\* a faulty encoding: one byte for every character, as Latin-1 does
encode_one_byte(text) == text

\* the bytes write_text writes for a text: UTF-8
RECURSIVE encode(_)
encode(text) ==
    IF text = <<>> THEN <<>>
    ELSE IF Head(text) < 128 THEN <<Head(text)>> \o encode(Tail(text))
    ELSE <<192 + (Head(text) \div 64), 128 + (Head(text) % 64)>> \o encode(Tail(text))

\* the checksum file: there, missing, or missing with its directory
ChecksumFile(data) == [st |-> "file", data |-> data]
NoChecksumFile == [st |-> "missing", data |-> <<>>]
NoCacheDir == [st |-> "nodir", data |-> <<>>]

\* local_checksum.exists() and local_checksum_data == remote_checksum_data
SameChecksum(loc, remote_data) == loc.st = "file" /\ loc.data = remote_data

\* _sde_checksum_match is called: the session is opened and the request for
\* the checksum sent; the call is suspended in session.get (line 793)
Download ==
    /\ sde_pc \in {"idle", "returned", "raised"}
    /\ sde_pc' = "requested"
    /\ remote_checksum_data' = <<>>
    /\ downloads' = 1
    /\ UNCHANGED <<local_checksum, remote_checksum, checksum_match>>
    /\ UNCHANGED <<yamlVars, esiVars>>

\* update_sde is called, lines 753-764: the cache directory is made if it is
\* not there, and _sde_checksum_match is called
update_sde ==
    /\ sde_pc \in {"idle", "returned", "raised"}
    /\ local_checksum' = IF local_checksum = NoCacheDir THEN NoChecksumFile ELSE local_checksum
    /\ sde_pc' = "requested"
    /\ remote_checksum_data' = <<>>
    /\ downloads' = 1
    /\ UNCHANGED <<remote_checksum, checksum_match>>
    /\ UNCHANGED <<yamlVars, esiVars>>

\* the answer arrives: the call goes on to response.read() and is suspended
\* there (line 794)
ResponseArrives ==
    /\ sde_pc = "requested"
    /\ sde_pc' = "reading"
    /\ UNCHANGED <<local_checksum, remote_checksum, remote_checksum_data, checksum_match,
                   downloads>>
    /\ UNCHANGED <<yamlVars, esiVars>>

\* the body has arrived: response.read() returns the checksum
BodyRead ==
    /\ sde_pc = "reading"
    /\ sde_pc' = "downloaded"
    /\ remote_checksum_data' = remote_checksum
    /\ UNCHANGED <<local_checksum, remote_checksum, checksum_match, downloads>>
    /\ UNCHANGED <<yamlVars, esiVars>>

\* lines 796-813: the local checksum is read and compared, and written anew
\* when it differs
Compare ==
    /\ sde_pc = "downloaded"
    /\ IF SameChecksum(local_checksum, remote_checksum_data)
       THEN /\ sde_pc' = "returned"
            /\ checksum_match' = TRUE
            /\ local_checksum' = local_checksum
       ELSE IF ~decode(remote_checksum_data).ok
       THEN /\ sde_pc' = "raised"
            /\ UNCHANGED <<checksum_match, local_checksum>>
       ELSE IF local_checksum.st = "nodir"
       THEN /\ sde_pc' = "raised"
            /\ UNCHANGED <<checksum_match, local_checksum>>
       ELSE /\ sde_pc' = "returned"
            /\ checksum_match' = FALSE
            /\ local_checksum' = ChecksumFile(encode(decode(remote_checksum_data).text))
    /\ UNCHANGED <<remote_checksum, remote_checksum_data, downloads>>
    /\ UNCHANGED <<yamlVars, esiVars>>

\* the file is edited or removed between two calls, as the test does, or by
\* another callback while the call is suspended
Edit ==
    /\ sde_pc \in {"requested", "reading", "returned", "raised"}
    /\ local_checksum.st # "nodir"
    /\ local_checksum' \in
          {NoChecksumFile} \cup {ChecksumFile(d) : d \in BytesUpTo(MaxChecksum)}
    /\ local_checksum' # local_checksum
    /\ UNCHANGED <<sde_pc, remote_checksum, remote_checksum_data, checksum_match, downloads>>
    /\ UNCHANGED <<yamlVars, esiVars>>

InitChecksum ==
    /\ sde_pc = "idle"
    /\ local_checksum \in
          {NoCacheDir, NoChecksumFile} \cup {ChecksumFile(d) : d \in BytesUpTo(MaxChecksum)}
    /\ remote_checksum \in BytesUpTo(MaxChecksum)
    /\ remote_checksum_data = <<>>
    /\ checksum_match = FALSE
    /\ downloads = 0
    /\ YamlOff
    /\ EsiOff

SpecChecksum ==
    InitChecksum /\ [][Download \/ update_sde \/ ResponseArrives \/ BodyRead \/ Compare \/ Edit]_vars

(***************************************************************************)
(* Properties of load.                                                     *)
(***************************************************************************)
\* a line on_line does not skip: neither blank nor a comment
Significant(line) ==
    Strip(line, WS) # <<>> /\ ~StartsWith(Strip(line, WS), <<"#">>)

IsItem(line) == StartsWith(strip_indent(line), <<"-", " ">>)

\* a "key: value" line, the value inline
IsEntry(line) ==
    /\ Significant(line)
    /\ get_dict_value(line).t = "pair"
    /\ get_dict_value(line).v # PyDict(<<>>)

\* a "key:" line, no value inline
IsOpenKey(line) ==
    /\ Significant(line)
    /\ get_dict_value(line).t = "pair"
    /\ get_dict_value(line).v = PyDict(<<>>)

EntryOf(line) == [k |-> get_dict_value(line).k, v |-> get_dict_value(line).v]

\* the mappings of consecutive items: a "- " line starts one, other lines add to it
RECURSIVE ItemMaps(_)
ItemMaps(lines) ==
    IF Len(lines) = 0 THEN <<>>
    ELSE LET before == ItemMaps(SubSeq(lines, 1, Len(lines) - 1))
             last == lines[Len(lines)]
         IN  IF IsItem(last) THEN Append(before, PyDict(<<EntryOf(last)>>))
             ELSE [before EXCEPT ![Len(before)] = PyDict(Append(@.items, EntryOf(last)))]

\* the column of an item's payload: the line's length less what is left once
\* its leading "-" and " " characters are gone
PayloadColumn(line) == Len(line) - Len(LStrip(line, {"-", " "}))

\* the document of C1: an open key at column 0, then items deeper than the key,
\* all at one column, each "- key: value" with further "key: value" lines at the
\* payload column, the keys of one item distinct
ItemListDoc(lines) ==
    /\ Len(lines) >= 2
    /\ IsOpenKey(lines[1]) /\ ~IsItem(lines[1]) /\ get_indent_level(lines[1]) = 0
    /\ IsItem(lines[2])
    /\ \A i \in 2..Len(lines) :
          /\ IsEntry(lines[i])
          /\ IF IsItem(lines[i])
             THEN /\ get_indent_level(lines[i]) = get_indent_level(lines[2])
                  /\ PayloadColumn(lines[i]) = PayloadColumn(lines[2])
             ELSE get_indent_level(lines[i]) = PayloadColumn(lines[2])
    /\ \A i \in 1..Len(ItemMaps(Tail(lines))) :
          \A j, k \in 1..Len(ItemMaps(Tail(lines))[i].items) :
             j # k => ItemMaps(Tail(lines))[i].items[j].k # ItemMaps(Tail(lines))[i].items[k].k

\* C1: a document made of an open key followed by deeper "- key: value" items,
\* each with its further "key: value" lines at the payload column, loads without
\* error and gives under the key a Sequence holding one Mapping per "- " line, in
\* document order, each with exactly the entries of its own item.
ItemsBecomeMappings ==
    ItemListDoc(LinesOf(file)) =>
        /\ pc \notin {"error", "hang"}
        /\ pc = "done" =>
             Returned = PyDict(<< [k |-> get_dict_value(LinesOf(file)[1]).k,
                                   v |-> PyList(ItemMaps(Tail(LinesOf(file))))] >>)

\* C1 happens: the spec's example shape, two items of two entries each, was loaded
ItemsBecomeMappingsSeen ==
    /\ pc = "done"
    /\ ItemListDoc(LinesOf(file))
    /\ Len(LinesOf(file)) = 5
    /\ Len(Returned.items[1].v.items) = 2
    /\ Len(Returned.items[1].v.items[2].items) = 2

\* how many entries the containers of a heap hold altogether
RECURSIVE Entries(_)
Entries(hp) ==
    IF Len(hp) = 0 THEN 0
    ELSE Len(hp[Len(hp)].items) + Entries(SubSeq(hp, 1, Len(hp) - 1))

\* C2: a mapping-entry line whose key is already in the mapping on top of the
\* stack makes load fail; no entry is silently overwritten.  Every line on_line
\* handles without a raise adds an entry of its own (an entry under an existing
\* key adds none) and leaves every earlier entry as it was.
DuplicateKeyFails ==
    [][(pc = "run" /\ pc' = "run" /\ Significant(ReadLine(file, pos))) =>
          /\ Entries(heap') > Entries(heap)
          /\ \A id \in 1..Len(heap) : \A i \in 1..Len(heap[id].items) :
                heap'[id].items[i] = heap[id].items[i]]_vars

\* the sum of the first n layers' indents
PrefixSum(layers, n) == sum_layer_indent(SubSeq(layers, 1, n))

\* the stack holds a prefix of layers whose indents sum to exactly c, and every
\* longer prefix sums to more: popping while c is below the sum ends on c
DedentsOnto(layers, c) ==
    \E n \in 0..Len(layers) :
       /\ PrefixSum(layers, n) = c
       /\ \A k \in (n + 1)..Len(layers) : PrefixSum(layers, k) > c

\* C5: for every significant line the driver handles, once the layers whose
\* indents sum above the line's logical indent are popped, the logical indent
\* equals the sum of the layers left, or load fails.
DedentRule ==
    [][(pc = "run" /\ Significant(ReadLine(file, pos))) =>
          \/ pc' = "error"
          \/ DedentsOnto(data_layers, logical_indent(ReadLine(file, pos)))]_vars

\* C5 happens: "a:", "  b: 1", " c: 2" failed on its third line, the indent
\* check of on_line raising after the layer of indent 2 was popped
DedentRuleSeen ==
    /\ pc = "error" /\ err = "weh" /\ line_count = 3
    /\ SubSeq(LinesOf(file), 1, 3) =
          << <<"a", ":", "\n">>, <<" ", " ", "b", ":", " ", "1", "\n">>,
             <<" ", "c", ":", " ", "2", "\n">> >>
    /\ Len(data_layers) = 1

\* C6: load terminates on every finite file: at every moment it has returned,
\* has raised, or can still take a step (each step of the read loop consumes a
\* line, so it cannot go on for ever).  It can take a step in "start", and in
\* "run", where readline() gives a line or b"".
LoadTerminates == pc \in {"done", "error"} \/ pc \in {"start", "run"}

\* the file f without its i-th physical line
Without(f, i) ==
    LET lines == LinesOf(f)
        join[n \in 0..Len(lines)] ==
            IF n = 0 THEN <<>> ELSE join[n - 1] \o (IF n = i THEN <<>> ELSE lines[n])
    IN  join[Len(lines)]

\* the containers, keys and nesting of a tree, the scalars left out
RECURSIVE Shape(_)
Shape(v) ==
    IF v.t = "dict"
    THEN PyDict([i \in 1..Len(v.items) |-> [k |-> v.items[i].k, v |-> Shape(v.items[i].v)]])
    ELSE IF v.t = "list" THEN PyList([i \in 1..Len(v.items) |-> Shape(v.items[i])])
    ELSE [t |-> "scalar"]

\* when load succeeded on the shorter file, it succeeded here with the same shape
SameShapeAs(base) ==
    base.st = "done" => pc = "done" /\ Shape(Returned) = Shape(base.tree)

\* C3: a blank line or a comment line (trimmed content starting with "#", at
\* any indentation) put anywhere into a file that loads leaves the result as it
\* was: the file with the line still loads, to a tree of the same containers,
\* keys and nesting.
CommentsChangeNothing ==
    pc \in {"done", "error", "hang"} =>
        \A i \in 1..Len(LinesOf(file)) :
            ~Significant(LinesOf(file)[i]) => SameShapeAs(Load(Without(file, i)))

\* C7: a lookahead leaves the read position where it was.  The peek of load
\* leaves it at 0; a step on a "key:" line, which reads no string block, leaves
\* it just after that line whether the step went well or raised; and so, these
\* documents holding no strings, every physical line is read by the driver once.
PeekRestoresPosition ==
    [][/\ (pc = "start" /\ pc' = "run") => pos' = pos
       /\ (pc = "run" /\ pc' \in {"run", "error"} /\ IsOpenKey(ReadLine(file, pos)))
             => pos' = pos + Len(ReadLine(file, pos))
       /\ pc' = "done" => line_count' = Len(LinesOf(file))]_vars

\* C7 happens: the peek after "a:" skipped a blank line and a comment before it
\* found the line that opened the nested Mapping
PeekRestoresPositionSeen ==
    /\ pc = "run" /\ line_count = 1 /\ Len(data_layers) = 2
    /\ Len(LinesOf(file)) >= 4
    /\ IsOpenKey(LinesOf(file)[1])
    /\ LinesOf(file)[2] = <<"\n">>
    /\ LinesOf(file)[3] = <<"#", " ", "c", "\n">>
    /\ pos = Len(LinesOf(file)[1])

\* how many times the character c occurs in s
Count(s, c) == Len(SelectSeq(s, LAMBDA x : x = c))

\* a "key: value" line whose value opens with a double quote and holds no other
OpensQuote(line) ==
    /\ IsEntry(line) /\ ~IsItem(line)
    /\ get_dict_value(line).v.t = "str"
    /\ get_dict_value(line).v.s[1] = "\""
    /\ Count(line, "\"") = 1

\* a line whose last character, the newline aside, is its only double quote
ClosesQuote(line) ==
    /\ Count(line, "\"") = 1
    /\ EndsWith(RStrip(line, WS), <<"\"">>)

\* the text of a line without its indentation, newline and closing quote
BeforeQuote(line) == SubSeq(Strip(line, WS), 1, Len(Strip(line, WS)) - 1)

\* C4: a value that opens with a double quote on the key's line and is closed by
\* the quote ending the next physical line is the text of the two lines joined by
\* one space, neither quote in it.
QuotedValueJoined ==
    (/\ line_count = 1
     /\ Len(LinesOf(file)) >= 2
     /\ OpensQuote(LinesOf(file)[1])
     /\ ClosesQuote(LinesOf(file)[2])) =>
        /\ pc \in {"run", "done"}
        /\ heap[1].items =
              << [k |-> get_dict_value(LinesOf(file)[1]).k,
                  v |-> PyStr(Tail(get_dict_value(LinesOf(file)[1]).v.s) \o <<" ">>
                              \o BeforeQuote(LinesOf(file)[2]))] >>

\* C10: a quoted scalar whose closing quote is not found before the file ends
\* makes load fail; load does not return a tree.
UnterminatedQuoteFails ==
    (/\ Len(LinesOf(file)) >= 1
     /\ OpensQuote(LinesOf(file)[1])
     /\ Count(file, "\"") = 1) => pc # "done"

\* a text in brackets holding exactly one element: no comma, no further
\* bracket, not blank
OneElement(g) ==
    /\ StartsWith(g, <<"[">>) /\ EndsWith(g, <<"]">>) /\ Len(g) >= 2
    /\ Count(g, ",") = 0 /\ Count(g, "[") = 1 /\ Count(g, "]") = 1
    /\ Strip(SubSeq(g, 2, Len(g) - 1), WS) # <<>>

\* C8: a bracketed text with exactly one element decodes to the sequence of that
\* element's decoded value, and only "[]" decodes to the empty sequence.
OneElementSequenceKept ==
    pc = "decoded" =>
        /\ OneElement(Strip(given, WS)) =>
              decoded = HandleEach(<<SubSeq(Strip(given, WS), 2, Len(Strip(given, WS)) - 1)>>)
        /\ decoded = PyList(<<>>) =>
              Strip(SubSeq(Strip(given, WS), 2, Len(Strip(given, WS)) - 1), WS) = <<>>

\* s without its leading "-", if it has one
Unsigned(s) == IF StartsWith(s, <<"-">>) THEN Tail(s) ELSE s

\* C9: digits with an optional leading "-" decode to an Int (of that value), and
\* such text holding exactly one "." decodes to a Float.
SignedNumbersDecode ==
    pc = "decoded" =>
        /\ IsNumeric(Unsigned(Strip(given, WS))) =>
              decoded = PyInt((IF StartsWith(Strip(given, WS), <<"-">>) THEN -1 ELSE 1)
                              * IntOf(Unsigned(Strip(given, WS))))
        /\ (/\ Count(given, ".") = 1
            /\ IsNumeric(SelectSeq(Unsigned(Strip(given, WS)), LAMBDA c : c # ".")))
              => decoded.t = "float"

\* the 1-based number of the physical line that starts at byte p of f
PhysicalLine(f, p) == Count(SubSeq(f, 1, p), "\n") + 1

\* C11: when on_line fails on a line, the line number reported with the error
\* is the 1-based physical position of that line in the file, every earlier
\* physical line counted, the continuation lines of multi-line strings too.
ErrorLineIsPhysical ==
    [][(pc = "run" /\ pc' = "error" /\ ReadLine(file, pos) # <<>>) =>
          line_count' = PhysicalLine(file, pos)]_vars

\* C12: the stream load opens is closed on every exit path: once load has
\* returned and once it has raised, the stream is no longer open (and it is
\* open as long as the read loop runs).
StreamClosedOnExit ==
    /\ pc \in {"done", "error"} => closed
    /\ pc = "run" => ~closed

\* C12 happens: load raised on the third line of a file and the stream is closed
StreamClosedOnExitSeen ==
    pc = "error" /\ err = "weh" /\ line_count = 3 /\ closed

\* C13: loading the same bytes twice gives equal trees, or the same failure
\* both times: nothing of one call is left for the next.
LoadTwiceSame ==
    (calls >= 2 /\ pc \in {"done", "error"}) => Outcome = previous

\* C13 happens: the second load of a file of items has returned its tree
LoadTwiceSameSeen ==
    /\ calls = 2 /\ pc = "done"
    /\ previous.st = "done"
    /\ Len(LinesOf(file)) = 5
    /\ Returned.items[1].v.t = "list"
    /\ Len(Returned.items[1].v.items) = 2

\* every key of every mapping of the tree v is a str
RECURSIVE KeysAreText(_)
KeysAreText(v) ==
    IF v.t = "dict"
    THEN \A i \in 1..Len(v.items) : v.items[i].k.t = "str" /\ KeysAreText(v.items[i].v)
    ELSE IF v.t = "list" THEN \A i \in 1..Len(v.items) : KeysAreText(v.items[i])
    ELSE TRUE

\* C14: in every tree load returns, every mapping key is a String: the text
\* before the ":" is kept as text, also when it is all digits or true/false.
KeysStayText == pc = "done" => KeysAreText(Returned)

\* the column at which the next line of the innermost open container must
\* start once line is handled and the read position is p: the peeked line's
\* logical indent after an open key, the payload column after an item that
\* starts a Mapping, the line's own logical indent otherwise
NextColumn(f, p, line) ==
    IF IsOpenKey(line) THEN logical_indent(read_future_line(f, p).line)
    ELSE IF IsItem(line) /\ IsEntry(line) THEN PayloadColumn(line)
    ELSE logical_indent(line)

\* C20: whenever a line is dispatched to sequence or mapping handling, the
\* indents of the stack sum to the line's logical indent; and after the line is
\* handled they sum to the column at which the next line of the innermost open
\* container must start.
StackSumIsColumn ==
    [][(pc = "run" /\ pc' = "run" /\ Significant(ReadLine(file, pos))) =>
          /\ DedentsOnto(data_layers, logical_indent(ReadLine(file, pos)))
          /\ sum_layer_indent(data_layers') = NextColumn(file, pos', ReadLine(file, pos))]_vars

\* the step is a call of request by t that is not refused for its arguments
Requests(t) ==
    /\ tasks[t].pc \in {"idle", "returned", "raised"}
    /\ tasks'[t] # tasks[t]
    /\ tasks'[t].raised # "ValueError"

\* C15: while the cache holds a response for the key of a call whose expiry
\* is still ahead, request returns that very response and sends no HTTP request.
CachedIsReturned ==
    [][\A t \in Tasks :
          (/\ Requests(t)
           /\ use_internal_cache
           /\ cache[tasks'[t].key].id # 0
           /\ now < cache[tasks'[t].key].expires) =>
              /\ tasks'[t].pc = "returned"
              /\ tasks'[t].out = cache[tasks'[t].key]
              /\ sent' = sent]_vars

\* a second call within the expiry of the first has returned the response of
\* the first and the only HTTP request is the first call's
CachedIsReturnedSeen ==
    /\ use_internal_cache
    /\ tasks[1].pc = "returned"
    /\ tasks[1].nsent = 0
    /\ tasks[1].out.id = 1
    /\ tasks[1].out = cache[tasks[1].key]
    /\ now = 1
    /\ sent = 1


\* the step is a call of request by t for a key whose cached response has expired
RequestsExpired(t) ==
    /\ Requests(t)
    /\ use_internal_cache
    /\ cache[tasks'[t].key].id # 0
    /\ cache[tasks'[t].key].expires <= now

\* the step ends such a call of t with a return
RefetchReturns(t) ==
    /\ tasks[t].pc = "body"
    /\ tasks'[t].pc = "returned"
    /\ tasks[t].cached_response.id # 0

\* what the cache gives for the key is the response t has just received
NewIsCached(t) ==
    /\ tasks'[t].out.id = tasks[t].rid
    /\ cache'[tasks[t].key] = tasks'[t].out

\* C16 as claimed: once the cached response has expired, the next call for the
\* key sends a new HTTP request and returns the new response, and the new
\* response replaces the old cache entry.
ExpiredIsReplaced ==
    [][\A t \in Tasks :
          /\ RequestsExpired(t) => sent' = sent + 1 /\ tasks'[t].pc = "inflight"
          /\ RefetchReturns(t) => NewIsCached(t)]_vars

\* C16, amended: once the cached response has expired, the next call for the
\* key sends a new HTTP request.  An answer other than 304 is returned as the
\* new response and replaces the old cache entry when it has an Expires
\* header, so that a later call within the new expiry returns it and never the
\* old one; without an Expires header it is returned and the cache left as it
\* was.  On a 304 to an If-None-Match header the call returns the cached
\* response and leaves the cache as it was.
ExpiredIsRefetched ==
    [][\A t \in Tasks :
          /\ RequestsExpired(t) => sent' = sent + 1 /\ tasks'[t].pc = "inflight"
          /\ (RefetchReturns(t) /\ tasks[t].status # 304 /\ tasks[t].ret.expires # -1) =>
                NewIsCached(t)
          /\ (RefetchReturns(t) /\ tasks[t].status # 304 /\ tasks[t].ret.expires = -1) =>
                tasks'[t].out.id = tasks[t].rid /\ cache' = cache
          /\ (RefetchReturns(t) /\ tasks[t].status = 304) =>
                tasks'[t].out = cache[tasks[t].key] /\ cache' = cache
          /\ (Requests(t) /\ sent' = sent /\ tasks'[t].pc = "returned") =>
                /\ tasks'[t].out = cache[tasks'[t].key]
                /\ now < tasks'[t].out.expires]_vars

\* the second response has taken the place of the expired first one in the
\* cache and is what the call returned
ExpiredIsRefetchedSeen ==
    /\ use_internal_cache
    /\ tasks[1].pc = "returned"
    /\ tasks[1].nsent = 1
    /\ tasks[1].cached_response.id = 1
    /\ tasks[1].cached_response.expires <= now
    /\ tasks[1].out.id = 2
    /\ cache[tasks[1].key] = tasks[1].out

\* C17: after a response has reported an x-esi-error-limit-remain of 0, no
\* HTTP request is sent until the reset of the error limit has fired, and a
\* call made in between waits in acquire.
NoRequestUntilReset ==
    [][limit_hit =>
          /\ sent' = sent
          /\ \A t \in Tasks : Requests(t) => tasks'[t].pc = "waiting"]_vars

\* the step sends a request of t that is not the first of its call
SendsAgain(t) ==
    /\ tasks[t].pc \in {"sleeping", "waiting"}
    /\ tasks[t].nsent >= 1
    /\ tasks'[t].nsent = tasks[t].nsent + 1

\* the step reads a response of t whose status is an error other than 504
FailsFor(t) ==
    /\ tasks[t].pc = "body"
    /\ tasks'[t].pc # "body"
    /\ tasks[t].status >= 400
    /\ tasks[t].status # 504

\* C18: one call of request sends at most MAX_RETRIES + 1 = 4 HTTP requests;
\* it sends again only after a 504; a 400, 401, 403, 404 or other status of
\* 400 and more raises its error at once and stores nothing in the cache.
RetriesOnly504 ==
    [][\A t \in Tasks :
          /\ tasks'[t].nsent <= MAX_RETRIES + 1
          /\ tasks'[t].nsent <= 4
          /\ SendsAgain(t) => tasks[t].status = 504
          /\ FailsFor(t) =>
                /\ tasks'[t].pc = "raised"
                /\ tasks'[t].raised # ""
                /\ tasks[t].status = 400 => tasks'[t].raised = "HTTPBadRequest"
                /\ tasks[t].status = 401 => tasks'[t].raised = "HTTPUnauthorized"
                /\ tasks[t].status = 403 => tasks'[t].raised = "HTTPForbidden"
                /\ tasks[t].status = 404 => tasks'[t].raised = "HTTPNotFound"
                /\ tasks'[t].nsent = tasks[t].nsent
                /\ sent' = sent
                /\ cache' = cache]_vars

\* a call has sent four requests, three answered 504 and the last 404, and
\* has raised with nothing in the cache
RetriesOnly504Seen ==
    /\ use_internal_cache
    /\ tasks[1].pc = "raised"
    /\ tasks[1].raised = "HTTPNotFound"
    /\ tasks[1].nsent = 4
    /\ sent = 4
    /\ now = 45
    /\ cache[tasks[1].key].id = 0

\* C19: when _sde_checksum_match returns, the local checksum file exists and
\* holds the remote checksum; it returns TRUE exactly when the file was there
\* with the remote checksum in it, and FALSE when it was missing or different;
\* the checksum was downloaded once.
ChecksumIsSynced ==
    [][(sde_pc = "downloaded" /\ sde_pc' = "returned") =>
          /\ local_checksum' = ChecksumFile(remote_checksum)
          /\ checksum_match' = (local_checksum = ChecksumFile(remote_checksum))
          /\ downloads' = 1]_vars

\* a call has found a file that differed and has left the remote checksum,
\* two bytes that are one character, in it
ChecksumIsSyncedSeen ==
    /\ sde_pc = "returned"
    /\ ~checksum_match
    /\ remote_checksum = <<195, 169>>
    /\ local_checksum = ChecksumFile(remote_checksum)
    /\ downloads = 1

(***************************************************************************)
(* Documents of sequences: scalar items, an item that opens a key at the   *)
(* root, an entry after the items of a root sequence.                      *)
(***************************************************************************)
\* the longest document of these
MaxSeqLines == 4

\* the file to load is any document of these lines
InitSeq ==
    /\ file \in Docs(
        { <<"a", ":">>,
          <<" ", " ", "b", ":", " ", "1">>,
          <<" ", " ", "c", ":", " ", "2">>,
          <<" ", " ", "-", " ", "1">>,
          <<" ", " ", "-", " ", "2">>,
          <<"-", " ", "b", ":">>,
          <<"-", " ", "-", "5">>,
          <<"b", ":", " ", "1">> }, MaxSeqLines)
    /\ Fresh

SpecSeq == InitSeq /\ [][Next]_vars

\* the longest document of folded strings among items
MaxFoldLines == 4

\* folded strings under a key at the root and under the key of an item, lines
\* that continue them, an item and an entry at the root
InitFold ==
    /\ file \in Docs(
        { <<"a", ":", " ", "x">>,
          <<"-", " ", "a", ":", " ", "x">>,
          <<" ", " ", "z">>,
          <<" ", " ", " ", " ", "z">>,
          <<"b", ":", " ", "1">>,
          <<>> }, MaxFoldLines)
    /\ Fresh

SpecFold == InitFold /\ [][Next]_vars

\* the first line from byte p on that is neither blank nor a comment; <<>> if
\* there is none
RECURSIVE PeekSignificant(_, _)
PeekSignificant(f, p) ==
    IF ReadLine(f, p) = <<>> \/ Significant(ReadLine(f, p)) THEN ReadLine(f, p)
    ELSE PeekSignificant(f, p + Len(ReadLine(f, p)))

\* the layer on top of the stack
TopLayer(layers) == layers[Len(layers)]

\* the layers under the top one
Below(layers) == SubSeq(layers, 1, Len(layers) - 1)

\* the stack after the step is a prefix of the stack before it and one layer more
OnePushed(before, after) ==
    /\ Len(after) >= 2
    /\ Len(after) - 1 <= Len(before)
    /\ Below(after) = SubSeq(before, 1, Len(after) - 1)

\* C21: when a mapping line (no item) has a key and no inline value and a
\* significant line follows, the key's value becomes a new empty Sequence if the next significant line is a
\* "- " item and a new empty Mapping otherwise, and one frame is pushed whose
\* relative indent is that line's logical indent minus the sum of the frames
\* under it.
OpenKeyPushesFrame ==
    [][(/\ pc = "run" /\ pc' = "run"
        /\ IsOpenKey(ReadLine(file, pos)) /\ ~IsItem(ReadLine(file, pos))
        /\ PeekSignificant(file, pos + Len(ReadLine(file, pos))) # <<>>) =>
          /\ OnePushed(data_layers, data_layers')
          /\ TopLayer(data_layers').data = Len(heap')
          /\ Len(heap') = Len(heap) + 1
          /\ heap'[Len(heap')] =
                IF IsItem(PeekSignificant(file, pos + Len(ReadLine(file, pos))))
                THEN PyList(<<>>) ELSE PyDict(<<>>)
          /\ \E i \in 1..Len(heap'[TopLayer(Below(data_layers')).data].items) :
                heap'[TopLayer(Below(data_layers')).data].items[i] =
                   [k |-> get_dict_value(ReadLine(file, pos)).k, v |-> Ref(Len(heap'))]
          /\ TopLayer(data_layers').indent =
                logical_indent(PeekSignificant(file, pos + Len(ReadLine(file, pos))))
                   - sum_layer_indent(Below(data_layers'))]_vars

\* the two documents of C21 load to {a: {b: 1, c: 2}} and {a: [1, 2]}
OpenKeyExamples ==
    /\ file = Flatten(<< <<"a", ":">>, <<" ", " ", "b", ":", " ", "1">>,
                         <<" ", " ", "c", ":", " ", "2">> >>)
          => (pc = "done" =>
                 Returned = PyDict(<< [k |-> PyStr(<<"a">>),
                                       v |-> PyDict(<< [k |-> PyStr(<<"b">>), v |-> PyInt(1)],
                                                       [k |-> PyStr(<<"c">>), v |-> PyInt(2)] >>)] >>))
             /\ pc \notin {"error", "hang"}
    /\ file = Flatten(<< <<"a", ":">>, <<" ", " ", "-", " ", "1">>,
                         <<" ", " ", "-", " ", "2">> >>)
          => (pc = "done" =>
                 Returned = PyDict(<< [k |-> PyStr(<<"a">>),
                                       v |-> PyList(<<PyInt(1), PyInt(2)>>)] >>))
             /\ pc \notin {"error", "hang"}

\* the topmost layer of the stack that holds a Sequence; 0 if none does
RECURSIVE LastList(_, _)
LastList(layers, hp) ==
    IF Len(layers) = 0 THEN 0
    ELSE IF hp[TopLayer(layers).data].t = "list" THEN Len(layers)
    ELSE LastList(Below(layers), hp)

\* an item line reaches handle_list with Mappings on top of the Sequence it
\* belongs to: the dedent loop done, the stack sums to the line's logical
\* indent, its top holds a Mapping, and the topmost Sequence under it sits at
\* the same column (the layers above that Sequence have indent 0)
StaleAbove(layers, hp, line) ==
    /\ IsItem(line)
    /\ Len(layers) >= 1
    /\ sum_layer_indent(layers) = logical_indent(line)
    /\ hp[TopLayer(layers).data].t = "dict"
    /\ LastList(layers, hp) >= 1
    /\ PrefixSum(layers, LastList(layers, hp)) = logical_indent(line)

\* the stack is cut back to its first n layers (new ones may follow) and the
\* Sequence of layer n has one item more
AppendedAt(layers, n) ==
    /\ Len(data_layers') >= n
    /\ SubSeq(data_layers', 1, n) = SubSeq(layers, 1, n)
    /\ \A k \in (n + 1)..Len(data_layers') : data_layers'[k].data > Len(heap)
    /\ Len(heap'[layers[n].data].items) = Len(heap[layers[n].data].items) + 1
    /\ SubSeq(heap'[layers[n].data].items, 1, Len(heap[layers[n].data].items))
          = heap[layers[n].data].items

\* C22: when a "- " line arrives while the top frame is a Mapping, the stale
\* frames are popped until the top frame is the Sequence the item belongs to,
\* however many Mapping frames lie above it, and the item is appended to that
\* Sequence: handle_list does not fail for want of a list layer.
StaleFramesPopped ==
    [][(/\ pc = "run"
        /\ StaleAbove(Dedent(data_layers, logical_indent(ReadLine(file, pos))), heap,
                      ReadLine(file, pos))) =>
          /\ err' # "expected_list"
          /\ pc' = "run" =>
                AppendedAt(Dedent(data_layers, logical_indent(ReadLine(file, pos))),
                           LastList(Dedent(data_layers, logical_indent(ReadLine(file, pos))),
                                    heap))]_vars

\* the text of an item line after its first "- " marker
Payload(line) == SubSeq(strip_indent(line), 3, Len(strip_indent(line)))

\* C23: for a "- " line whose payload is not of "key:" or "key: value" shape,
\* the value appended to the Sequence on top of the stack is the scalar decoded
\* from exactly the text after the first "- " marker, a payload that begins
\* with "-" included.
PayloadDecodedIntact ==
    [][(/\ pc = "run" /\ pc' = "run"
        /\ IsItem(ReadLine(file, pos))
        /\ get_dict_value(ReadLine(file, pos)) = None) =>
          /\ heap'[TopLayer(data_layers').data].t = "list"
          /\ Len(heap'[TopLayer(data_layers').data].items) >= 1
          /\ heap'[TopLayer(data_layers').data].items
                [Len(heap'[TopLayer(data_layers').data].items)]
                = handle_value(Payload(ReadLine(file, pos)))]_vars

\* a number as the scalar decoder is meant to read it: digits, an optional
\* leading "-", at most one "."
IsNumber(g) ==
    /\ IsNumeric(SelectSeq(Unsigned(g), LAMBDA c : c # "."))
    /\ Count(g, ".") <= 1

\* text wrapped in "[" and "]"
IsBracketed(g) == StartsWith(g, <<"[">>) /\ EndsWith(g, <<"]">>)

\* C24: a text that is neither a number (digits, optional leading "-", at most
\* one "."), nor true or false, nor wrapped in brackets decodes to itself as a
\* String and raises no error; so digits with more than one "." do.
OtherTextIsString ==
    (/\ pc = "decoded"
     /\ ~IsNumber(Strip(given, WS))
     /\ Strip(given, WS) \notin {<<"t", "r", "u", "e">>, <<"f", "a", "l", "s", "e">>}
     /\ ~IsBracketed(Strip(given, WS))) => decoded = PyStr(Strip(given, WS))

\* a "key: value" line (no item) whose value is a string that goes on after
\* the line: unquoted, or opened by a quote that the line does not close
OpensBlock(line) ==
    /\ IsEntry(line) /\ ~IsItem(line)
    /\ get_dict_value(line).v.t = "str"
    /\ Len(get_dict_value(line).v.s) >= 1
    /\ get_dict_value(line).v.s[1] \in {"\"", "'"} =>
          find_stop_string(Tail(get_dict_value(line).v.s), get_dict_value(line).v.s[1]) = -1

\* such a line whose value opens with a quote
OpensQuoted(line) == OpensBlock(line) /\ get_dict_value(line).v.s[1] \in {"\"", "'"}

\* what one physical line adds to an open string: a blank line a newline,
\* any other line a space and the line trimmed
Contribution(line) ==
    IF Strip(line, WS) = <<>> THEN <<"\n">> ELSE <<" ">> \o Strip(line, WS)

\* what the physical lines from byte p up to byte q add, in order
RECURSIVE Absorbed(_, _, _)
Absorbed(f, p, q) ==
    IF p >= q \/ ReadLine(f, p) = <<>> THEN <<>>
    ELSE Contribution(ReadLine(f, p)) \o Absorbed(f, p + Len(ReadLine(f, p)), q)

\* where the last physical line that starts in p..q-1 starts
RECURSIVE LastStart(_, _, _)
LastStart(f, p, q) ==
    IF p + Len(ReadLine(f, p)) >= q \/ ReadLine(f, p) = <<>> THEN p
    ELSE LastStart(f, p + Len(ReadLine(f, p)), q)

\* the strings the block that started with text and took the lines from p up
\* to q may be: the text and what the lines added, trimmed (a block ended by a
\* dedent or by the end of the file), or without the closing quote (a block
\* closed by its quote); for a quoted block the opening quote is in it or not
BlockValues(f, p, q, text) ==
    IF text[1] \in {"\"", "'"}
    THEN { RStrip(head \o Absorbed(f, p, q), {text[1]}) : head \in {text, Tail(text)} }
            \cup { Strip(head \o Absorbed(f, p, q), WS) : head \in {text, Tail(text)} }
    ELSE { Strip(text \o Absorbed(f, p, q), WS) }

\* the mapping on top of the stack holds v under the key k
HoldsAtTop(layers, hp, k, v) ==
    \E i \in 1..Len(hp[TopLayer(layers).data].items) :
       /\ KeyEq(hp[TopLayer(layers).data].items[i].k, k)
       /\ hp[TopLayer(layers).data].items[i].v = v

\* C25: while a quoted or folded multi-line value is open, each blank physical
\* line adds one newline character to the string and each other line one space
\* and the line trimmed; no blank line ends the block: an unquoted block ends
\* before a line that is not blank (or with the file), a quoted one with a line
\* that is not blank (or with the file).
BlankLinesAreNewlines ==
    [][(pc = "run" /\ pc' = "run" /\ OpensBlock(ReadLine(file, pos))) =>
          /\ \E v \in BlockValues(file, pos + Len(ReadLine(file, pos)), pos',
                                  get_dict_value(ReadLine(file, pos)).v.s) :
                HoldsAtTop(data_layers', heap', get_dict_value(ReadLine(file, pos)).k, PyStr(v))
          /\ \/ pos' = Len(file)
             \/ /\ ~OpensQuoted(ReadLine(file, pos))
                /\ Strip(ReadLine(file, pos'), WS) # <<>>
             \/ /\ OpensQuoted(ReadLine(file, pos))
                /\ pos' > pos + Len(ReadLine(file, pos))
                /\ Strip(ReadLine(file, LastStart(file, pos + Len(ReadLine(file, pos)), pos')),
                         WS) # <<>>]_vars

\* C25 happens: a folded value took a blank line and a continuation line and
\* holds the newline between them
BlankLinesAreNewlinesSeen ==
    /\ pc = "run" /\ line_count = 1
    /\ Len(LinesOf(file)) >= 4
    /\ SubSeq(LinesOf(file), 1, 4) =
          << <<"a", ":", " ", "x", "\n">>, <<"\n">>, <<" ", " ", "z", "\n">>,
             <<"b", ":", " ", "1", "\n">> >>
    /\ heap[1].items = << [k |-> PyStr(<<"a">>), v |-> PyStr(<<"x", "\n", " ", "z">>)] >>
    /\ ReadLine(file, pos) = <<"b", ":", " ", "1", "\n">>

\* a "key: value" line, an item or not, whose value is an unquoted string
OpensFolded(line) ==
    /\ IsEntry(line)
    /\ get_dict_value(line).v.t = "str"
    /\ Len(get_dict_value(line).v.s) >= 1
    /\ get_dict_value(line).v.s[1] \notin {"\"", "'"}

\* the column of the key of a line: after the marker on an item line
KeyColumn(line) ==
    IF IsItem(line) THEN get_stripped_list_indent(line) ELSE get_indent_level(line)

\* where the first line from byte p on starts that is not blank and whose
\* logical indent is at most k; the end of the file if there is none
RECURSIVE StopAt(_, _, _)
StopAt(f, p, k) ==
    IF ReadLine(f, p) = <<>> THEN p
    ELSE IF Strip(ReadLine(f, p), WS) # <<>> /\ logical_indent(ReadLine(f, p)) <= k
         THEN p
    ELSE StopAt(f, p + Len(ReadLine(f, p)), k)

\* the step took the lines of the folded string up to byte q and no further:
\* the driver reads at q next, and the string is made of the lines before q
FoldedUpTo(q) ==
    /\ pos' = q
    /\ \E i \in 1..Len(heap'[TopLayer(data_layers').data].items) :
          /\ KeyEq(heap'[TopLayer(data_layers').data].items[i].k,
                   get_dict_value(ReadLine(file, pos)).k)
          /\ heap'[TopLayer(data_layers').data].items[i].v =
                PyStr(Strip(get_dict_value(ReadLine(file, pos)).v.s
                               \o Absorbed(file, pos + Len(ReadLine(file, pos)), q), WS))

\* C26: an unquoted string value takes the following lines up to the first
\* line that is not blank and whose logical indent (the column after the
\* marker for an item) is at most the column of the key; that line is not
\* part of the string and is the next the driver handles.
FoldedEndsAtLogicalIndent ==
    [][(pc = "run" /\ pc' = "run" /\ OpensFolded(ReadLine(file, pos))) =>
          FoldedUpTo(StopAt(file, pos + Len(ReadLine(file, pos)),
                            KeyColumn(ReadLine(file, pos))))]_vars

\* C27 as stated: when load returns, the stack holds the root frame only.
OnlyRootAtReturn == pc = "done" => Len(data_layers) = 1

\* C27, amended: reaching the end of the stream pops nothing.  When load
\* returns, the stack is the one the last line left: the root frame at its
\* bottom, whose container is returned, and above it the frames of the nested
\* containers that no dedent popped.
StackKeptAtReturn ==
    [][(pc = "run" /\ pc' = "done") =>
          /\ data_layers' = data_layers
          /\ heap' = heap
          /\ Len(data_layers') >= 1
          /\ data_layers'[1].data = 1]_vars

\* C27 happens: load returned {a: {b: 1}} with the frame of the nested Mapping
\* still on the stack
StackKeptAtReturnSeen ==
    /\ pc = "done"
    /\ file = Flatten(<< <<"a", ":">>, <<" ", " ", "b", ":", " ", "1">> >>)
    /\ data_layers = <<NestedData(0, 1), NestedData(2, 2)>>
    /\ Returned = PyDict(<< [k |-> PyStr(<<"a">>),
                            v |-> PyDict(<< [k |-> PyStr(<<"b">>), v |-> PyInt(1)] >>)] >>)

\* the root frame load builds for a file, going by its first significant line
RootFrameOf(f) == NestedData(IF IsItem(PeekSignificant(f, 0)) THEN 2 ELSE 0, 1)

\* C28: the root frame is never removed in a run that goes on or returns: as
\* long as load reads lines and when it has returned, frame 0 is the root frame
\* (a step that pops it raises); and the value returned is the root container
\* chosen from the first significant line, a Sequence with relative indent 2 if
\* that line starts with "- ", a Mapping with relative indent 0 otherwise.
RootNeverPopped ==
    /\ pc \in {"run", "done"} => Len(data_layers) >= 1 /\ data_layers[1].data = 1
    /\ pc = "done" =>
          /\ data_layers[1] = RootFrameOf(file)
          /\ heap[1].t = (IF IsItem(PeekSignificant(file, 0)) THEN "list" ELSE "dict")
          /\ Returned.t = heap[1].t

\* C28 happens: an entry at column 0 after the item of a root Sequence popped
\* the root frame, and load raised IndexError on that line
RootNeverPoppedSeen ==
    /\ pc = "error" /\ err = "index" /\ line_count = 2
    /\ Len(data_layers) = 0
    /\ heap[1].t = "list"
    /\ SubSeq(LinesOf(file), 1, 2) = << <<"-", " ", "-", "5", "\n">>, <<"b", ":", " ", "1", "\n">> >>

\* a mapping-entry line, "key:" or "key: value", that is no item
IsMapLine(line) == (IsEntry(line) \/ IsOpenKey(line)) /\ ~IsItem(line)

\* the physical line before byte p
LineBefore(f, p) == ReadLine(f, LastStart(f, 0, p))

\* the container that got the entry of the mapping-entry line just handled:
\* the one under the top after a "key:" line, which pushed a layer for the
\* key's own value, the top one after a "key: value" line
EntryWentTo(layers, line) ==
    IF IsOpenKey(line) THEN TopLayer(Below(layers)).data ELSE TopLayer(layers).data

\* C29: two mapping-entry lines with the same indentation, one right after the
\* other, become entries of the same Mapping; a key with no inline value does
\* not take a following line of its own indentation as its child.
SameIndentSameMapping ==
    [][(/\ pc = "run" /\ pc' = "run" /\ pos > 0
        /\ IsMapLine(LineBefore(file, pos))
        /\ IsMapLine(ReadLine(file, pos))
        /\ get_indent_level(LineBefore(file, pos)) = get_indent_level(ReadLine(file, pos))) =>
          EntryWentTo(data_layers', ReadLine(file, pos))
             = EntryWentTo(data_layers, LineBefore(file, pos))]_vars

\* the coroutine t waits in acquire
Waits(t) == tasks[t].pc = "waiting"

====
